---- MODULE Spec2Model ----
(***************************************************************************)
(* Verification model of the paged-heap page subsystem (spaces.cc) and of  *)
(* the Maglev graph builder (maglev-graph-builder.cc).                     *)
(*                                                                         *)
(* Each subsystem has its own group of variables and its own               *)
(* specification; the variables of the other groups stay at their initial  *)
(* values under a given specification.                                     *)
(***************************************************************************)
EXTENDS Integers, Sequences, FiniteSets, TLC

\* A null pointer to an array or a set (what it points to is never empty), a
\* null pointer to an object (objects are numbered from 1), and the absence of
\* a returned address.
Null == <<>>
nullptr == 0
NoResult == -1

Max(a, b) == IF a >= b THEN a ELSE b
Min(a, b) == IF a <= b THEN a ELSE b

(***************************************************************************)
(* State                                                                   *)
(***************************************************************************)
\* Remembered sets of a page.
VARIABLES
  slot_set_old_to_new,   \* Page::slot_set_[OLD_TO_NEW]: Null or a SlotSet
  sweeping_slot_set_,    \* Page::sweeping_slot_set_: Null or a SlotSet
  rs_fatal,              \* a CHECK failed: the process is gone
  rs_phase,              \* history: "idle", "sweeping", "merged"
  rs_pre,                \* history: slots recorded when the sweep started
  rs_during,             \* history: slots recorded during the sweep
  rs_last                \* history: the last operation and what it saw

rsVars == <<slot_set_old_to_new, sweeping_slot_set_, rs_fatal, rs_phase,
            rs_pre, rs_during, rs_last>>

\* Free-list categories of a page.
VARIABLES
  categories_,           \* Page::categories_: Null or an array of pointers
  cat_next,              \* the next FreeListCategory the allocator hands out
  cat_deleted,           \* per FreeListCategory: how often it was deleted
  cat_arrays_live,       \* arrays allocated with new[] and not yet deleted
  cat_fatal,             \* a DCHECK failed (debug build): the process is gone
  last_category,         \* owner()->free_list()->last_category()
  cat_initialized,       \* the categories Initialize() was called on
  cat_last               \* history: the last operations and what they saw

catVars == <<categories_, cat_next, cat_deleted, cat_arrays_live, cat_fatal,
             last_category, cat_initialized, cat_last>>

\* ComputeLimit as a function of its arguments and of the space's mode.
VARIABLES
  cl_start, cl_end, cl_min_size,  \* the arguments
  cl_inline_disabled,             \* heap()->inline_allocation_disabled()
  cl_supports_observer,           \* SupportsAllocationObserver()
  cl_active,                      \* allocation_counter_.IsActive()
  cl_step,                        \* allocation_counter_.NextBytes()
  cl_result                       \* NoResult or the returned limit

clVars == <<cl_start, cl_end, cl_min_size, cl_inline_disabled,
            cl_supports_observer, cl_active, cl_step, cl_result>>

\* The graph builder's representation-conversion cache.
VARIABLES
  cv_nodes,      \* the nodes of the graph, in creation order (a node's
                 \* identity is its index)
  cv_info,       \* known_node_aspects(): per node, its NodeInfo
  cv_requests,   \* history: how many conversions were requested
  cv_prev,       \* history: the conversion request before the last one
  cv_last        \* history: the last conversion request and its outcome

cvVars == <<cv_nodes, cv_info, cv_requests, cv_prev, cv_last>>

\* BuildCheckMaps and the type checks on one object.
VARIABLES
  mp_object,       \* the checked value node and, for a constant, its map
  mp_info,         \* known_node_aspects(): the NodeInfo of the object
  mp_emitted,      \* the nodes added to the current block
  mp_deps,         \* broker()->dependencies(): the maps depended on as stable
  mp_any_unstable, \* known_node_aspects().any_map_for_any_node_is_unstable
  mp_aborted,      \* the block ended in an unconditional deopt
  mp_ops,          \* the number of operations applied to the object so far
  mp_last          \* history: the last operation, what it saw and returned

mpVars == <<mp_object, mp_info, mp_emitted, mp_deps, mp_any_unstable,
            mp_aborted, mp_ops, mp_last>>

\* Loop peeling and the dead-predecessor bookkeeping.
VARIABLES
  predecessors_,                    \* expected predecessors per offset
  merge_states_,                    \* the merge state per offset, if any
  decremented_predecessor_offsets_, \* dead merges of the peeled iteration
  in_peeled_iteration_,
  allow_loop_peeling_,
  current_block_,                   \* TRUE when there is a block being built
  iterator_offset,                  \* iterator_.current_offset()
  pl_loop_header,                   \* offset of the loop to peel
  pl_jump_loop,                     \* offset of its JumpLoop
  pl_pc,                            \* position within PeelLoop
  pl_pre,                           \* history: predecessors_ on entry
  pl_recorded,                      \* history: the offsets recorded
  pl_block_at_end,                  \* history: current_block_ after the peel
  pl_dead                           \* history: the last dead merge

plVars == <<predecessors_, merge_states_, decremented_predecessor_offsets_,
            in_peeled_iteration_, allow_loop_peeling_, current_block_,
            iterator_offset, pl_loop_header, pl_jump_loop, pl_pc, pl_pre,
            pl_recorded, pl_block_at_end, pl_dead>>

\* Building a straight-line bytecode sequence that ends in a conditional
\* jump.  The builder's predecessor and merge-state fields are those above.
VARIABLES
  bc_program,                  \* the bytecode array
  bc_live,                     \* registers live out of every bytecode
  bc_nodes,                    \* the value nodes of the graph
  bc_info,                     \* known_node_aspects()
  current_interpreter_frame_,  \* register (or accumulator) -> value node
  bc_control,                  \* the control nodes that ended a block
  bc_branch_accumulators,      \* accumulator set in each branch of the jump
  bc_pc,                       \* "building" or "done"
  bc_fused                     \* history: the last call of BuildFusedBranch

bcVars == <<bc_program, bc_live, bc_nodes, bc_info,
            current_interpreter_frame_, bc_control, bc_branch_accumulators,
            bc_pc, bc_fused>>

\* The linear allocation area of a space and its allocation counter.
VARIABLES
  allocation_info_,      \* LinearAllocationArea: start, top, limit
  allocation_counter_,   \* AllocationCounter: paused, observers, next_bytes
  la_end,                \* the end of the region the area lies in
  la_supports_observer,  \* SupportsAllocationObserver()
  la_inline_disabled,    \* heap()->inline_allocation_disabled()
  la_fatal,              \* a DCHECK failed (debug build): the process is gone
  la_last                \* history: the last operation and what it did

laVars == <<allocation_info_, allocation_counter_, la_end,
            la_supports_observer, la_inline_disabled, la_fatal, la_last>>

\* The mark bits and the live-byte counter of a page, and the threads that
\* create and destroy black areas on it.
VARIABLES
  ba_bitmap,       \* the addresses of the page whose mark bit is set
  ba_live_bytes,   \* the page's live-byte counter
  ba_threads,      \* per background thread: its call and where it is in it
  ba_total,        \* history: live bytes at first, bytes created, destroyed
  ba_last          \* history: the last two calls and what they found

baVars == <<ba_bitmap, ba_live_bytes, ba_threads, ba_total, ba_last>>

\* The search for the branch that follows a test.
VARIABLES
  fb_frames,   \* the builder and its callers: bytecode, iterator, merge points
  fb_result    \* history: what TryFindNextBranch returned
fbVars == <<fb_frames, fb_result>>

\* A page and the region between its high water mark and the end of its
\* area.  Addresses and sizes are in tagged words.
VARIABLES
  sh_page,              \* reserved_memory()->IsReserved(), address(), size(),
                        \* area_end(), HighWaterMark()
  sh_fillers,           \* the sizes of the objects from the high water mark
                        \* on, all fillers, in address order
  sh_commit_page_size,  \* MemoryAllocator::GetCommitPageSize()
  sh_last               \* history: the last call and what it returned

shVars == <<sh_page, sh_fillers, sh_commit_page_size, sh_last>>

\* The graph builder's cache of known properties.
VARIABLES
  loaded_properties,           \* known_node_aspects().loaded_properties
  loaded_constant_properties,  \* ...loaded_constant_properties
  kp_ops,                      \* the number of calls so far
  kp_last                      \* history: the last call, what it found and
                               \* what it returned

kpVars == <<loaded_properties, loaded_constant_properties, kp_ops, kp_last>>

\* The builders of an inlining chain, their deopt frame scopes, and the lazy
\* deopt frame last built.
VARIABLES
  df_builders,   \* the current builder first, then its parent_ and so on:
                 \* scope stack, out-liveness, inlined_arguments_
  df_last        \* history: the frames GetDeoptFrameForLazyDeopt returned
                 \* for the builders as they are, the top frame first

dfVars == <<df_builders, df_last>>

\* The chain of nested inlinings: the innermost builder and the graph's
\* inlining budget.
VARIABLES
  in_functions,        \* per function: bytecode length, the function its
                       \* call site calls, the call feedback, what makes it
                       \* unfit for inlining
  in_unit,             \* compilation_unit_->shared_function_info() of the
                       \* innermost builder
  in_depth,            \* its inlining_depth()
  call_frequency_,     \* its call_frequency_, as the exponent k of 2^-k
  in_total,            \* graph()->total_inlined_bytecode_size()
  in_pc                \* "building", or "done": no further nested inlining

inVars == <<in_functions, in_unit, in_depth, call_frequency_, in_total, in_pc>>

\* The builders of an inlining chain while the callee's body is built, and
\* how the last inlined call ended.
VARIABLES
  fr_builders,    \* the innermost builder first: current_block_ (nullptr or
                  \* a block), terminated_with_fused_branch_, whether
                  \* merge_states_[inline_exit_offset()] exists, whether a
                  \* forward jump waits for its target
  fr_blocks,      \* the number of basic blocks created so far
  fr_last         \* history: the last TryBuildInlinedCall that returned

frVars == <<fr_builders, fr_blocks, fr_last>>

vars ==
  <<rsVars, catVars, clVars, cvVars, mpVars, plVars, bcVars, laVars,
    baVars, fbVars, shVars, kpVars, dfVars, inVars, frVars>>

\* What an action of one subsystem leaves alone.
OutsideRS == <<catVars, clVars, cvVars, mpVars, plVars, bcVars,
               laVars, baVars, fbVars,
  shVars,
  kpVars,
  dfVars,
  inVars,
  frVars>>
OutsideCat == <<rsVars, clVars, cvVars, mpVars, plVars, bcVars,
                laVars, baVars, fbVars,
  shVars,
  kpVars,
  dfVars,
  inVars,
  frVars>>
OutsideCL == <<rsVars, catVars, cvVars, mpVars, plVars, bcVars,
               laVars, baVars, fbVars,
  shVars,
  kpVars,
  dfVars,
  inVars,
  frVars>>
OutsideCV == <<rsVars, catVars, clVars, mpVars, plVars, bcVars,
               laVars, baVars, fbVars,
  shVars,
  kpVars,
  dfVars,
  inVars,
  frVars>>
OutsideMP == <<rsVars, catVars, clVars, cvVars, plVars, bcVars,
               laVars, baVars, fbVars,
  shVars,
  kpVars,
  dfVars,
  inVars,
  frVars>>
OutsidePL == <<rsVars, catVars, clVars, cvVars, mpVars, bcVars,
               laVars, baVars, fbVars,
  shVars,
  kpVars,
  dfVars,
  inVars,
  frVars>>
OutsideBC == <<rsVars, catVars, clVars, cvVars, mpVars, laVars, baVars,
               fbVars,
  shVars,
  kpVars,
  dfVars,
  inVars,
  frVars>>
OutsideLA == <<rsVars, catVars, clVars, cvVars, mpVars, plVars, bcVars,
               baVars, fbVars,
  shVars,
  kpVars,
  dfVars,
  inVars,
  frVars>>
OutsideBA == <<rsVars, catVars, clVars, cvVars, mpVars, plVars, bcVars,
               laVars, fbVars,
  shVars,
  kpVars,
  dfVars,
  inVars,
  frVars>>
OutsideFB == <<rsVars, catVars, clVars, cvVars, mpVars, plVars, bcVars,
               laVars, baVars,
  shVars,
  kpVars,
  dfVars,
  inVars,
  frVars>>
OutsideSH ==
  <<rsVars, catVars, clVars, cvVars, mpVars, plVars, bcVars, laVars,
    baVars, fbVars,
  kpVars,
  dfVars,
  inVars,
  frVars>>
OutsideKP ==
  <<rsVars, catVars, clVars, cvVars, mpVars, plVars, bcVars, laVars,
    baVars, fbVars, shVars,
  dfVars,
  inVars,
  frVars>>
OutsideDF ==
  <<rsVars, catVars, clVars, cvVars, mpVars, plVars, bcVars, laVars,
    baVars, fbVars, shVars, kpVars,
  inVars,
  frVars>>
OutsideIN ==
  <<rsVars, catVars, clVars, cvVars, mpVars, plVars, bcVars, laVars,
    baVars, fbVars, shVars, kpVars, dfVars,
  frVars>>
OutsideFR ==
  <<rsVars, catVars, clVars, cvVars, mpVars, plVars, bcVars, laVars,
    baVars, fbVars, shVars, kpVars, dfVars, inVars>>

(***************************************************************************)
(* Remembered sets: Page::MoveOldToNewRememberedSetForSweeping and         *)
(* Page::MergeOldToNewRememberedSets                                       *)
(***************************************************************************)
\* Number of slot addresses of the page the model distinguishes.
MaxSlot == 3
Slots == 0 .. (MaxSlot - 1)

\* A SlotSet is a bitmap with one bit per slot of the page.
EmptySlotSet == [s \in Slots |-> FALSE]
SlotSetInsert(set, s) == [set EXCEPT ![s] = TRUE]
SlotSetContents(set) == IF set = Null THEN {} ELSE {s \in Slots : set[s]}

\* The slots a SlotSet::Iterate visits, in address order: one visit per set
\* bit.
RECURSIVE SlotSetIterate(_, _)
SlotSetIterate(set, from) ==
  IF set = Null \/ from >= MaxSlot THEN <<>>
  ELSE (IF set[from] THEN <<from>> ELSE <<>>) \o SlotSetIterate(set, from + 1)

\* The callback of MergeOldToNewRememberedSets applied to the visited slots:
\* RememberedSetSweeping::Insert<NON_ATOMIC>(this, address); KEEP_SLOT.
RECURSIVE InsertAllSweeping(_, _)
InsertAllSweeping(visited, into) ==
  IF visited = <<>> THEN into
  ELSE InsertAllSweeping(Tail(visited), SlotSetInsert(into, Head(visited)))

InitRS ==
  /\ slot_set_old_to_new = Null
  /\ sweeping_slot_set_ = Null
  /\ rs_fatal = FALSE
  /\ rs_phase = "idle"
  /\ rs_pre = {}
  /\ rs_during = {}
  /\ rs_last = [op |-> "none", live |-> Null, sweeping |-> Null,
                phase |-> "idle", prev |-> "none"]

RSBefore(op) ==
  [op |-> op, live |-> slot_set_old_to_new, sweeping |-> sweeping_slot_set_,
   phase |-> rs_phase, prev |-> rs_last.op]

\* RememberedSet<OLD_TO_NEW>::Insert(page, slot): the write barrier records a
\* slot in the live set, allocating the set on first use.
RememberedSetInsert(s) ==
  /\ ~rs_fatal
  /\ slot_set_old_to_new' =
       SlotSetInsert(IF slot_set_old_to_new = Null THEN EmptySlotSet
                     ELSE slot_set_old_to_new, s)
  /\ rs_during' = IF rs_phase = "sweeping" THEN rs_during \cup {s}
                  ELSE rs_during
  /\ rs_phase' = IF rs_phase = "sweeping" THEN "sweeping" ELSE "idle"
  /\ rs_last' = RSBefore("insert")
  /\ UNCHANGED <<sweeping_slot_set_, rs_fatal, rs_pre>>
  /\ UNCHANGED OutsideRS

\* A move that hands the live set to the sweeper and keeps it live as well.
MoveSharingLiveSet ==
  /\ ~rs_fatal
  /\ rs_last' = RSBefore("move")
  /\ IF sweeping_slot_set_ # Null
     THEN /\ rs_fatal' = TRUE
          /\ UNCHANGED <<slot_set_old_to_new, sweeping_slot_set_, rs_phase,
                         rs_pre, rs_during>>
     ELSE /\ sweeping_slot_set_' = slot_set_old_to_new
          /\ rs_phase' = "sweeping"
          /\ rs_pre' = SlotSetContents(slot_set_old_to_new)
          /\ rs_during' = {}
          /\ UNCHANGED <<rs_fatal, slot_set_old_to_new>>
  /\ UNCHANGED OutsideRS

MoveOldToNewRememberedSetForSweeping ==
  /\ ~rs_fatal
  /\ rs_last' = RSBefore("move")
  /\ IF sweeping_slot_set_ # Null
     THEN \* CHECK_NULL(sweeping_slot_set_) fails
          /\ rs_fatal' = TRUE
          /\ UNCHANGED <<slot_set_old_to_new, sweeping_slot_set_, rs_phase,
                         rs_pre, rs_during>>
     ELSE /\ sweeping_slot_set_' = slot_set_old_to_new
          /\ slot_set_old_to_new' = Null
          /\ rs_phase' = "sweeping"
          /\ rs_pre' = SlotSetContents(slot_set_old_to_new)
          /\ rs_during' = {}
          /\ UNCHANGED rs_fatal
  /\ UNCHANGED OutsideRS

\* The sets (live, sweeping) MergeOldToNewRememberedSets leaves behind.
MergeLosingLiveSet(live, sweeping) ==
  IF sweeping = Null THEN <<live, sweeping>>
  ELSE <<sweeping, Null>>

\* A merge that hands the merged set back and keeps the sweeping set too.
MergeKeepingSweepingSet(live, sweeping) ==
  IF sweeping = Null THEN <<live, sweeping>>
  ELSE IF live # Null
       THEN <<InsertAllSweeping(SlotSetIterate(live, 0), sweeping), sweeping>>
       ELSE <<sweeping, sweeping>>

MergedSets(live, sweeping) ==
  IF sweeping = Null THEN <<live, sweeping>>
  ELSE IF live # Null
       THEN <<InsertAllSweeping(SlotSetIterate(live, 0), sweeping), Null>>
       ELSE <<sweeping, Null>>

MergeOldToNewRememberedSets ==
  /\ ~rs_fatal
  /\ rs_last' = RSBefore("merge")
  /\ LET m == MergedSets(slot_set_old_to_new, sweeping_slot_set_)
     IN /\ slot_set_old_to_new' = m[1]
        /\ sweeping_slot_set_' = m[2]
  /\ rs_phase' = IF rs_phase = "sweeping" THEN "merged" ELSE rs_phase
  /\ UNCHANGED <<rs_fatal, rs_pre, rs_during>>
  /\ UNCHANGED OutsideRS


(***************************************************************************)
(* Free-list categories: Page::AllocateFreeListCategories,                 *)
(* Page::InitializeFreeListCategories, Page::ReleaseFreeListCategories     *)
(***************************************************************************)
kFirstCategory == 0

\* The largest last_category() of the free lists the model draws from.
MaxLastCategory == 2
\* How many FreeListCategory objects the allocator hands out at most.
MaxCategoryObjects == 6

CategoryIds == 1 .. MaxCategoryObjects

\* owner()->free_list()->number_of_categories()
number_of_categories == last_category + 1

CategoryRange == kFirstCategory .. last_category

InitCat ==
  /\ categories_ = Null
  /\ cat_next = 1
  /\ cat_deleted = [c \in CategoryIds |-> 0]
  /\ cat_arrays_live = 0
  /\ cat_fatal = FALSE
  /\ last_category \in 0 .. MaxLastCategory
  /\ cat_initialized = {}
  /\ cat_last = [op |-> "none", prev |-> "none", allocated |-> {},
                 clean |-> TRUE]

\* A specification that leaves a part of the program alone holds that part
\* in one fixed state: nothing allocated, no table filled, no call recorded.
ParkedCat ==
  /\ categories_ = Null
  /\ cat_next = 1
  /\ cat_deleted = <<>>
  /\ cat_arrays_live = 0
  /\ cat_fatal = FALSE
  /\ last_category = 0
  /\ cat_initialized = {}
  /\ cat_last = <<>>

\* The array AllocateFreeListCategories builds: value-initialized (all null),
\* then one new FreeListCategory per index of the loop.
AllocatedCategoriesOffByOne(first_id) ==
  [i \in 0 .. (number_of_categories - 1) |->
     IF i >= kFirstCategory /\ i < last_category
     THEN first_id + (i - kFirstCategory) ELSE nullptr]

AllocatedCategories(first_id) ==
  [i \in 0 .. (number_of_categories - 1) |->
     IF i >= kFirstCategory /\ i <= last_category
     THEN first_id + (i - kFirstCategory) ELSE nullptr]

CategoriesOf(array) ==
  IF array = Null THEN {}
  ELSE {array[i] : i \in DOMAIN array} \ {nullptr}

\* The categories allocated so far and not deleted.
LiveCategories == {c \in CategoryIds : c < cat_next /\ cat_deleted[c] = 0}

DoAllocateFreeListCategories ==
  LET array == AllocatedCategories(cat_next)
  IN /\ categories_' = array
     /\ cat_next' = cat_next + (last_category - kFirstCategory + 1)
     /\ cat_arrays_live' = cat_arrays_live + 1
     /\ cat_last' = [op |-> "allocate", prev |-> cat_last.op,
                     allocated |-> CategoriesOf(array),
                     clean |-> cat_last.clean /\ categories_ = Null]
     /\ UNCHANGED <<cat_deleted, cat_fatal, last_category, cat_initialized>>

\* DCHECK_NULL(categories_) holds, or the build has no DCHECKs.
AllocateFreeListCategories ==
  /\ ~cat_fatal
  /\ cat_next + (last_category - kFirstCategory) <= MaxCategoryObjects
  /\ DoAllocateFreeListCategories
  /\ UNCHANGED OutsideCat

\* DCHECK_NULL(categories_) fails in a debug build.
AllocateFreeListCategoriesDcheckFails ==
  /\ ~cat_fatal
  /\ categories_ # Null
  /\ cat_fatal' = TRUE
  /\ cat_last' = [cat_last EXCEPT !.op = "allocate-dcheck", !.prev = cat_last.op]
  /\ UNCHANGED <<categories_, cat_next, cat_deleted, cat_arrays_live,
                 last_category, cat_initialized>>
  /\ UNCHANGED OutsideCat

\* categories_[i]->Initialize(type) for every index of the range; the caller
\* has allocated the categories.
InitializeFreeListCategories ==
  /\ ~cat_fatal
  /\ categories_ # Null
  /\ \A i \in CategoryRange : categories_[i] # nullptr
  /\ cat_initialized' = cat_initialized \cup {categories_[i] : i \in CategoryRange}
  /\ cat_last' = [cat_last EXCEPT !.op = "initialize", !.prev = cat_last.op]
  /\ UNCHANGED <<categories_, cat_next, cat_deleted, cat_arrays_live,
                 cat_fatal, last_category>>
  /\ UNCHANGED OutsideCat

\* The categories the loop of ReleaseFreeListCategories deletes.
ReleasedCategories(array) ==
  IF array = Null THEN {}
  ELSE {array[i] : i \in CategoryRange} \ {nullptr}

ReleaseFreeListCategories ==
  /\ ~cat_fatal
  /\ cat_deleted' = [c \in CategoryIds |->
                       IF c \in ReleasedCategories(categories_)
                       THEN cat_deleted[c] + 1 ELSE cat_deleted[c]]
  /\ cat_arrays_live' = IF categories_ # Null THEN cat_arrays_live - 1
                        ELSE cat_arrays_live
  /\ categories_' = Null
  /\ cat_last' = [cat_last EXCEPT !.op = "release", !.prev = cat_last.op]
  /\ UNCHANGED <<cat_next, cat_fatal, last_category, cat_initialized>>
  /\ UNCHANGED OutsideCat


(***************************************************************************)
(* SpaceWithLinearArea::ComputeLimit                                       *)
(***************************************************************************)
kObjectAlignment == 8
kMaxInt == 2147483647

\* The largest address, and the largest observer step, the model draws.
MaxAddr == 48
MaxStep == 20
\* Addresses and sizes are multiples of the tagged size.
AddrGrain == 4

\* RoundSizeDownToObjectAlignment(int size): size & ~kObjectAlignmentMask
RoundSizeDownToObjectAlignment(size) == size - (size % kObjectAlignment)

\* static_cast<int>(size_t)
StaticCastInt(n) == IF n <= kMaxInt THEN n ELSE n - 2 * (kMaxInt + 1)

\* ComputeLimit without the observer branch: the whole node is exposed.
ComputeLimitIgnoringObservers(start, end, min_size, disabled, observing, step) ==
  IF disabled THEN start + min_size ELSE end

\* ComputeLimit without the clip to `end`.
ComputeLimitUnclipped(start, end, min_size, disabled, observing, step) ==
  IF disabled THEN start + min_size
  ELSE IF observing
       THEN start + Max(min_size,
                        RoundSizeDownToObjectAlignment(StaticCastInt(step - 1)))
       ELSE end

\* The limit, as a function of the arguments, of
\* heap()->inline_allocation_disabled(), of SupportsAllocationObserver() &&
\* allocation_counter_.IsActive(), and of allocation_counter_.NextBytes().
ComputeLimitOf(start, end, min_size, disabled, observing, step) ==
  IF disabled
  THEN start + min_size
  ELSE IF observing
       THEN LET rounded_step ==
                  RoundSizeDownToObjectAlignment(StaticCastInt(step - 1))
                step_end == start + Max(min_size, rounded_step)
                new_end == Min(step_end, end)
            IN new_end
       ELSE end

CLAddrs == {a \in 0 .. MaxAddr : a % AddrGrain = 0}

InitCL ==
  /\ cl_start \in CLAddrs
  /\ cl_end \in {e \in CLAddrs : e >= cl_start}
  /\ cl_min_size \in {m \in CLAddrs : m <= cl_end - cl_start}
  /\ cl_inline_disabled \in BOOLEAN
  /\ cl_supports_observer \in BOOLEAN
  /\ cl_active \in BOOLEAN
  /\ cl_step \in 1 .. MaxStep
  /\ cl_result = NoResult

ParkedCL ==
  /\ cl_start = 0
  /\ cl_end = 0
  /\ cl_min_size = 0
  /\ cl_inline_disabled = FALSE
  /\ cl_supports_observer = FALSE
  /\ cl_active = FALSE
  /\ cl_step = 1
  /\ cl_result = <<>>

\* One call of ComputeLimit(start, end, min_size); DCHECK_GE(end - start,
\* min_size) holds of the arguments.
ComputeLimit ==
  /\ cl_result = NoResult
  /\ cl_end - cl_start >= cl_min_size
  /\ cl_result' = ComputeLimitOf(cl_start, cl_end, cl_min_size,
                                 cl_inline_disabled,
                                 cl_supports_observer /\ cl_active, cl_step)
  /\ UNCHANGED <<cl_start, cl_end, cl_min_size, cl_inline_disabled,
                 cl_supports_observer, cl_active, cl_step>>
  /\ UNCHANGED OutsideCL

(***************************************************************************)
(* The linear allocation area and the allocation observers:                *)
(* SpaceWithLinearArea::AdvanceAllocationObservers,                        *)
(* PauseAllocationObservers, ResumeAllocationObservers,                    *)
(* AddAllocationObserver, RemoveAllocationObserver,                        *)
(* InvokeAllocationObservers                                               *)
(***************************************************************************)
\* The largest address of the region the area lies in, and the largest step
\* an observer asks for.
MaxLabEnd == 20
MaxLabStep == 17

LabAddrs == {a \in AddrGrain .. MaxLabEnd : a % AddrGrain = 0}
LabSizes == {n \in AddrGrain .. MaxLabEnd : n % AddrGrain = 0}
\* AllocationObserver::GetNextStepSize()
StepSizes == {n \in 1 .. MaxLabStep : n % AddrGrain = 1}

\* AllocationCounter::IsActive(): not paused and some observer registered.
IsActive(counter) == ~counter.paused /\ counter.observers

\* AllocationCounter::NextBytes(): the bytes left until the next step.
NextBytes(counter) == counter.next_bytes

\* AllocationCounter::AdvanceAllocationObservers(allocated)
CounterAdvance(counter, allocated) ==
  IF ~IsActive(counter) THEN counter
  ELSE [counter EXCEPT !.next_bytes = @ - allocated]

\* The bytes to the next step after the observers ran without counting the
\* object just allocated.
NextBytesAfterStepWithoutObject(aligned_object_size, step_size) == step_size

\* The bytes to the next step after AllocationCounter::
\* InvokeAllocationObservers(soon_object, object_size, aligned_object_size)
\* ran the observer, whose next step is step_size long.
NextBytesAfterStep(aligned_object_size, step_size) ==
  aligned_object_size + step_size

\* LinearAllocationArea::MoveStartToTop()
MoveStartToTop(info) == [info EXCEPT !.start = info.top]

\* The area and the counter, as the operations below take and return them.
LAState == [info |-> allocation_info_, counter |-> allocation_counter_]

LAObserving(st) == la_supports_observer /\ IsActive(st.counter)

\* SpaceWithLinearArea::AdvanceAllocationObservers()
AdvanceObservers(st) ==
  IF st.info.top # 0
  THEN [info |-> MoveStartToTop(st.info),
        counter |-> CounterAdvance(st.counter,
                                   st.info.top - st.info.start)]
  ELSE st

\* UpdateInlineAllocationLimit(min_size): the limit becomes
\* ComputeLimit(top(), end, min_size), `end` being the end of the region.
UpdateInlineAllocationLimit(st, end, min_size) ==
  [st EXCEPT !.info.limit =
     ComputeLimitOf(st.info.top, end, min_size, la_inline_disabled,
                    LAObserving(st), NextBytes(st.counter))]

\* The bump pointer after an allocation of `size` bytes that ignores the limit.
IncrementTopUnchecked(info, size) == [info EXCEPT !.top = @ + size]

\* The bump pointer after an allocation of `size` bytes, which fits below the
\* limit or does not happen.
IncrementTop(info, size) ==
  IF info.top + size <= info.limit THEN [info EXCEPT !.top = @ + size]
  ELSE info

\* An InvokeAllocationObservers that runs the observers on every allocation
\* it is called for while they are supported and active.
InvokeObserversAlways(st, size_in_bytes, aligned_size_in_bytes, allocation_size, step_size) ==
  IF ~la_supports_observer \/ ~IsActive(st.counter)
  THEN [st |-> st, fired |-> FALSE, filler |-> FALSE, checked |-> FALSE]
  ELSE [st |-> [st EXCEPT !.counter.next_bytes =
                            NextBytesAfterStep(allocation_size, step_size)],
        fired |-> TRUE, filler |-> TRUE, checked |-> TRUE]

\* SpaceWithLinearArea::InvokeAllocationObservers(soon_object, size_in_bytes,
\* aligned_size_in_bytes, allocation_size), its assertions on the arguments
\* passed; step_size is what the observer answers to GetNextStepSize().
InvokeObservers(st, size_in_bytes, aligned_size_in_bytes, allocation_size, step_size) ==
  IF ~la_supports_observer \/ ~IsActive(st.counter)
  THEN [st |-> st, fired |-> FALSE, filler |-> FALSE, checked |-> FALSE]
  ELSE IF allocation_size >= NextBytes(st.counter)
  THEN [st |-> [st EXCEPT !.counter.next_bytes =
                            NextBytesAfterStep(allocation_size, step_size)],
        fired |-> TRUE, filler |-> TRUE, checked |-> TRUE]
  ELSE [st |-> st, fired |-> FALSE, filler |-> FALSE, checked |-> TRUE]

\* Assertions that let exactly one of the two equalities hold.
InvokePreconditionExactlyOne(size_in_bytes, aligned_size_in_bytes, allocation_size) ==
  /\ size_in_bytes <= aligned_size_in_bytes
  /\ aligned_size_in_bytes <= allocation_size
  /\ (size_in_bytes = aligned_size_in_bytes)
       # (aligned_size_in_bytes = allocation_size)

\* The three assertions InvokeAllocationObservers opens with.
InvokePrecondition(size_in_bytes, aligned_size_in_bytes, allocation_size) ==
  /\ size_in_bytes <= aligned_size_in_bytes
  /\ aligned_size_in_bytes <= allocation_size
  /\ \/ size_in_bytes = aligned_size_in_bytes
     \/ aligned_size_in_bytes = allocation_size

NoLinearAreaCall ==
  [op |-> "none", size_in_bytes |-> 0, aligned_size_in_bytes |-> 0,
   allocation_size |-> 0, observing |-> FALSE, step |-> 0, fired |-> FALSE,
   filler |-> FALSE, checked |-> FALSE, next_bytes |-> 0, before |-> 0]

InitLA ==
  /\ la_end \in LabAddrs \cup {0}
  /\ \E start \in LabAddrs \cup {0} :
       /\ (start = 0) = (la_end = 0)
       /\ start <= la_end
       /\ allocation_info_ = [start |-> start, top |-> start, limit |-> start]
  /\ allocation_counter_ = [paused |-> FALSE, observers |-> FALSE,
                            next_bytes |-> 0]
  /\ la_supports_observer \in BOOLEAN
  /\ la_inline_disabled \in BOOLEAN
  /\ la_fatal = FALSE
  /\ la_last = NoLinearAreaCall

ParkedLA ==
  /\ la_end = 0
  /\ allocation_info_ = <<>>
  /\ allocation_counter_ = <<>>
  /\ la_supports_observer = FALSE
  /\ la_inline_disabled = FALSE
  /\ la_fatal = FALSE
  /\ la_last = <<>>

\* The state an operation leaves, and what the history keeps of it.
LADone(st, last) ==
  /\ allocation_info_' = st.info
  /\ allocation_counter_' = st.counter
  /\ la_last' = [last EXCEPT !.before = allocation_counter_.next_bytes]
  /\ UNCHANGED <<la_end, la_supports_observer, la_inline_disabled, la_fatal,
                 OutsideLA>>

\* The ends UpdateInlineAllocationLimit computes the limit against: the
\* current limit (a paged space only lowers it) or the end of the region.
LimitEnds == {allocation_info_.limit, la_end}

\* A limit update outside an allocation: UpdateInlineAllocationLimit(0),
\* called once the observers have been advanced.
UpdateLimit(end) ==
  /\ ~la_fatal
  /\ LAObserving(LAState) => allocation_info_.start = allocation_info_.top
  /\ end >= allocation_info_.top
  /\ LADone(UpdateInlineAllocationLimit(LAState, end, 0),
            [NoLinearAreaCall EXCEPT !.op = "UpdateInlineAllocationLimit"])

\* An allocation from the area on the fast path: it bumps the top when the
\* object fits and fails (for the slow path to take over) when it does not.
BumpAllocate(size) ==
  /\ ~la_fatal
  /\ allocation_info_.top # 0
  /\ LADone([LAState EXCEPT !.info = IncrementTop(@, size)],
            [NoLinearAreaCall EXCEPT !.op = "Allocate",
                                     !.size_in_bytes = size])


\* SpaceWithLinearArea::AdvanceAllocationObservers()
AdvanceAllocationObservers ==
  /\ ~la_fatal
  /\ LADone(AdvanceObservers(LAState),
            [NoLinearAreaCall EXCEPT !.op = "AdvanceAllocationObservers"])

\* SpaceWithLinearArea::PauseAllocationObservers()
PauseAllocationObservers ==
  /\ ~la_fatal
  /\ ~allocation_counter_.paused
  /\ LADone([AdvanceObservers(LAState) EXCEPT !.counter.paused = TRUE],
            [NoLinearAreaCall EXCEPT !.op = "PauseAllocationObservers"])

\* SpaceWithLinearArea::ResumeAllocationObservers()
ResumeAllocationObservers(end) ==
  /\ ~la_fatal
  /\ allocation_counter_.paused
  /\ end >= allocation_info_.top
  /\ LET resumed == [LAState EXCEPT !.counter.paused = FALSE]
         moved == [resumed EXCEPT !.info = MoveStartToTop(@)]
     IN LADone(UpdateInlineAllocationLimit(moved, end, 0),
               [NoLinearAreaCall EXCEPT !.op = "ResumeAllocationObservers"])

\* SpaceWithLinearArea::AddAllocationObserver(observer): the first observer
\* of the space, whose step is `step` bytes long.  Observers are registered
\* with spaces that support them.
AddAllocationObserver(step, end) ==
  /\ ~la_fatal
  /\ la_supports_observer
  /\ ~allocation_counter_.observers
  /\ end >= allocation_info_.top
  /\ LET advanced == AdvanceObservers(LAState)
         added == [advanced EXCEPT !.counter.observers = TRUE,
                                   !.counter.next_bytes = step]
     IN LADone(UpdateInlineAllocationLimit(added, end, 0),
               [NoLinearAreaCall EXCEPT !.op = "AddAllocationObserver",
                                        !.step = step])

\* SpaceWithLinearArea::RemoveAllocationObserver(observer): the last
\* observer of the space goes.
RemoveAllocationObserver(end) ==
  /\ ~la_fatal
  /\ allocation_counter_.observers
  /\ end >= allocation_info_.top
  /\ LET advanced == AdvanceObservers(LAState)
         removed == [advanced EXCEPT !.counter.observers = FALSE,
                                     !.counter.next_bytes = 0]
     IN LADone(UpdateInlineAllocationLimit(removed, end, 0),
               [NoLinearAreaCall EXCEPT !.op = "RemoveAllocationObserver"])

\* An allocation on the slow path: the observers are advanced, the limit is
\* recomputed for the whole allocation, the top is bumped over the alignment
\* filler and the object, and InvokeAllocationObservers is called.  `filler`
\* is the alignment filler in front of the object, `extra` what the caller
\* asked for beyond the aligned object.
AllocateRawSlow(size_in_bytes, filler, extra, step) ==
  LET aligned_size_in_bytes == size_in_bytes + filler
      allocation_size == aligned_size_in_bytes + extra
      advanced == AdvanceObservers(LAState)
      limited == UpdateInlineAllocationLimit(advanced, la_end, allocation_size)
      bumped == [limited EXCEPT !.info = IncrementTop(@, aligned_size_in_bytes)]
      call == [NoLinearAreaCall EXCEPT
                 !.op = "InvokeAllocationObservers",
                 !.size_in_bytes = size_in_bytes,
                 !.aligned_size_in_bytes = aligned_size_in_bytes,
                 !.allocation_size = allocation_size,
                 !.observing = LAObserving(bumped),
                 !.next_bytes = NextBytes(bumped.counter),
                 !.step = step]
  IN /\ ~la_fatal
     /\ allocation_info_.top # 0
     /\ la_end - allocation_info_.top >= allocation_size
     /\ IF InvokePrecondition(size_in_bytes, aligned_size_in_bytes,
                              allocation_size)
        THEN LET r == InvokeObservers(bumped, size_in_bytes,
                                      aligned_size_in_bytes, allocation_size,
                                      step)
             IN LADone(r.st, [call EXCEPT !.fired = r.fired,
                                          !.filler = r.filler,
                                          !.checked = r.checked])
        ELSE /\ la_fatal' = TRUE
             /\ allocation_info_' = bumped.info
             /\ allocation_counter_' = bumped.counter
             /\ la_last' = [call EXCEPT
                              !.before = allocation_counter_.next_bytes]
             /\ UNCHANGED <<la_end, la_supports_observer, la_inline_disabled,
                            OutsideLA>>

(***************************************************************************)
(* Black areas of a page: Page::CreateBlackArea, CreateBlackAreaBackground,*)
(* DestroyBlackArea, DestroyBlackAreaBackground                            *)
(***************************************************************************)
\* The end of the page's area (its start is 0), the number of background
\* threads and the number of calls followed.
MaxPageAddr == 12
MaxThreads == 2
MaxBlackAreaCalls == 3

PageAddrs == {a \in 0 .. MaxPageAddr : a % AddrGrain = 0}
\* The ranges [start, end) a black area may take: start < end, both on the page.
PageRanges == {r \in PageAddrs \X PageAddrs : r[1] < r[2]}
Threads == 1 .. MaxThreads

\* MemoryChunk::AddressToMarkbitIndex(addr): one mark bit per tagged word.
AddressToMarkbitIndex(addr) == addr \div AddrGrain

\* The mark bits of the page.
MarkbitIndices == 0 .. (AddressToMarkbitIndex(MaxPageAddr) - 1)
MarkbitsOf(start, end) ==
  {i \in MarkbitIndices :
     AddressToMarkbitIndex(start) <= i /\ i < AddressToMarkbitIndex(end)}

\* A SetRange that also sets the bit at end_index.
SetRangeInclusive(bitmap, start_index, end_index) ==
  bitmap \cup {i \in MarkbitIndices : start_index <= i /\ i <= end_index}

\* Bitmap::SetRange(start_index, end_index), Bitmap::ClearRange(...)
SetRange(bitmap, start_index, end_index) ==
  bitmap \cup {i \in MarkbitIndices : start_index <= i /\ i < end_index}
ClearRange(bitmap, start_index, end_index) ==
  bitmap \ {i \in MarkbitIndices : start_index <= i /\ i < end_index}

\* MarkingState::IncrementLiveBytes(page, by)
IncrementLiveBytes(live_bytes, by) == live_bytes + by

\* An increment that stores what the thread loaded earlier plus `by`.
IncrementLiveBytesFromLoaded(live_bytes, loaded, by) == loaded + by

\* IncrementalMarking::IncrementLiveBytesBackground(page, by): an atomic
\* increment; `loaded` is the counter as the thread last saw it.
IncrementLiveBytesBackground(live_bytes, loaded, by) == live_bytes + by

IdleThread == [op |-> "idle", start |-> 0, end |-> 0, loaded |-> 0]
NoBlackAreaCall ==
  [op |-> "none", start |-> 0, end |-> 0, bitmap |-> {}, live_bytes |-> 0]

InitBA ==
  /\ ba_bitmap \in SUBSET MarkbitIndices
  /\ ba_live_bytes = Cardinality(ba_bitmap) * AddrGrain
  /\ ba_threads = [t \in Threads |-> IdleThread]
  /\ ba_total = [initial |-> ba_live_bytes, created |-> 0, destroyed |-> 0,
                 calls |-> 0]
  /\ ba_last = <<NoBlackAreaCall, NoBlackAreaCall>>

ParkedBA ==
  /\ ba_bitmap = {}
  /\ ba_live_bytes = 0
  /\ ba_threads = <<>>
  /\ ba_total = <<>>
  /\ ba_last = <<>>

\* What the history keeps of a call: the call and the state it found.
BlackAreaCall(op, start, end) ==
  [op |-> op, start |-> start, end |-> end, bitmap |-> ba_bitmap,
   live_bytes |-> ba_live_bytes]

NoThreadInCall == \A t \in Threads : ba_threads[t].op = "idle"

\* Page::CreateBlackArea(start, end), on the main thread.
CreateBlackArea(start, end) ==
  /\ NoThreadInCall
  /\ ba_total.calls < MaxBlackAreaCalls
  /\ ba_bitmap' = SetRange(ba_bitmap, AddressToMarkbitIndex(start),
                           AddressToMarkbitIndex(end))
  /\ ba_live_bytes' = IncrementLiveBytes(ba_live_bytes, end - start)
  /\ ba_total' = [ba_total EXCEPT !.created = @ + (end - start),
                                  !.calls = @ + 1]
  /\ ba_last' = <<ba_last[2], BlackAreaCall("CreateBlackArea", start, end)>>
  /\ UNCHANGED <<ba_threads, OutsideBA>>

\* Page::DestroyBlackArea(start, end), on the main thread.
DestroyBlackArea(start, end) ==
  /\ NoThreadInCall
  /\ ba_total.calls < MaxBlackAreaCalls
  /\ ba_bitmap' = ClearRange(ba_bitmap, AddressToMarkbitIndex(start),
                             AddressToMarkbitIndex(end))
  /\ ba_live_bytes' = IncrementLiveBytes(ba_live_bytes, -(end - start))
  /\ ba_total' = [ba_total EXCEPT !.destroyed = @ + (end - start),
                                  !.calls = @ + 1]
  /\ ba_last' = <<ba_last[2], BlackAreaCall("DestroyBlackArea", start, end)>>
  /\ UNCHANGED <<ba_threads, OutsideBA>>

\* The ranges of the calls other threads are in do not meet [start, end).
DisjointFromOthers(t, start, end) ==
  \A u \in Threads \ {t} :
    ba_threads[u].op = "idle" \/ ba_threads[u].end <= start
      \/ end <= ba_threads[u].start

\* A background thread enters CreateBlackAreaBackground(start, end) or
\* DestroyBlackAreaBackground(start, end) and updates the mark bits through
\* the atomic marking state.
BackgroundMarkRange(t, op, start, end) ==
  /\ ba_threads[t].op = "idle"
  /\ ba_total.calls < MaxBlackAreaCalls
  /\ DisjointFromOthers(t, start, end)
  /\ ba_bitmap' =
       IF op = "CreateBlackAreaBackground"
       THEN SetRange(ba_bitmap, AddressToMarkbitIndex(start),
                     AddressToMarkbitIndex(end))
       ELSE ClearRange(ba_bitmap, AddressToMarkbitIndex(start),
                       AddressToMarkbitIndex(end))
  /\ ba_threads' = [ba_threads EXCEPT ![t] =
                      [op |-> op, start |-> start, end |-> end,
                       loaded |-> ba_live_bytes]]
  /\ ba_total' =
       IF op = "CreateBlackAreaBackground"
       THEN [ba_total EXCEPT !.created = @ + (end - start), !.calls = @ + 1]
       ELSE [ba_total EXCEPT !.destroyed = @ + (end - start), !.calls = @ + 1]
  /\ ba_last' = <<ba_last[2], BlackAreaCall(op, start, end)>>
  /\ UNCHANGED <<ba_live_bytes, OutsideBA>>

CreateBlackAreaBackground(t, start, end) ==
  BackgroundMarkRange(t, "CreateBlackAreaBackground", start, end)

DestroyBlackAreaBackground(t, start, end) ==
  BackgroundMarkRange(t, "DestroyBlackAreaBackground", start, end)

\* The thread's call ends with IncrementLiveBytesBackground(page, +-size).
BackgroundIncrementLiveBytes(t) ==
  /\ ba_threads[t].op # "idle"
  /\ LET size == ba_threads[t].end - ba_threads[t].start
         by == IF ba_threads[t].op = "CreateBlackAreaBackground"
               THEN size ELSE -size
     IN ba_live_bytes' =
          IncrementLiveBytesBackground(ba_live_bytes, ba_threads[t].loaded, by)
  /\ ba_threads' = [ba_threads EXCEPT ![t] = IdleThread]
  /\ UNCHANGED <<ba_bitmap, ba_total, ba_last, OutsideBA>>

(***************************************************************************)
(* NodeType lattice                                                        *)
(***************************************************************************)
\* A NodeType is a set of bits; a type with more bits is more precise.
kUnknown == {}
kNumberOrOddball == {"NumberOrOddball"}
kNumber == {"Number"} \cup kNumberOrOddball
kObjectWithKnownMap == {"ObjectWithKnownMap"}
kSmi == {"Smi"} \cup kObjectWithKnownMap \cup kNumber
kAnyHeapObject == {"AnyHeapObject"}
kOddball == {"Oddball"} \cup kAnyHeapObject \cup kNumberOrOddball
kBoolean == {"Boolean"} \cup kOddball
kName == {"Name"} \cup kAnyHeapObject
kString == {"String"} \cup kName
kInternalizedString == {"InternalizedString"} \cup kString
kSymbol == {"Symbol"} \cup kName
kJSReceiver == {"JSReceiver"} \cup kAnyHeapObject
kCallable == {"Callable"} \cup kJSReceiver
kHeapNumber == kAnyHeapObject \cup kNumber
kHeapObjectWithKnownMap == kObjectWithKnownMap \cup kAnyHeapObject
\* static_cast<NodeType>(-1)
kAllNodeTypeBits ==
  kSmi \cup kBoolean \cup kInternalizedString \cup kSymbol \cup kCallable

\* NODE_TYPE_LIST
NamedNodeTypes ==
  [Unknown |-> kUnknown, NumberOrOddball |-> kNumberOrOddball,
   Number |-> kNumber, ObjectWithKnownMap |-> kObjectWithKnownMap,
   Smi |-> kSmi, AnyHeapObject |-> kAnyHeapObject, Oddball |-> kOddball,
   Boolean |-> kBoolean, Name |-> kName, String |-> kString,
   InternalizedString |-> kInternalizedString, Symbol |-> kSymbol,
   JSReceiver |-> kJSReceiver, Callable |-> kCallable,
   HeapNumber |-> kHeapNumber,
   HeapObjectWithKnownMap |-> kHeapObjectWithKnownMap]

NodeTypeIs(type, to_check) == to_check \subseteq type
NodeTypeIsSmi(type) == NodeTypeIs(type, kSmi)
NodeTypeIsNumber(type) == NodeTypeIs(type, kNumber)
CombineType(left, right) == left \cup right
IntersectType(left, right) == left \cap right

(***************************************************************************)
(* Representation conversions: GetTaggedValue, GetInt32, GetFloat64,       *)
(* GetFloat64ForToNumber, GetTruncatedInt32ForToNumber                     *)
(***************************************************************************)
\* How many conversions the model asks for.
MaxRequests == 3
\* A request adds at most two nodes to the one the graph starts with.
NodeIds == 1 .. (2 * MaxRequests + 1)

ToNumberHints ==
  {"kAssumeSmi", "kDisallowToNumber", "kAssumeNumber", "kAssumeNumberOrOddball"}

\* A double is an integer k (non-negative and below 2^31 in the model) and a
\* fraction: none, one half, or the mark that the double is NaN.
kIntegral == 0
kPlusHalf == 1
kIsNaN == 2
Double(k, frac) == [k |-> k, frac |-> frac]
kNaN == Double(0, kIsNaN)
kSmiMaxValue == 1073741823
kSmiMinValue == -1073741824
\* Root constants.
kUndefinedValue == 1
kTrueValue == 2
kempty_string == 3
kNanValue == 4
kFalseValue == 5
kNullValue == 6
\* The payload of a Constant that is a string, or a JSObject, and not a
\* HeapNumber.
kStringObject == -2
kJSObjectConstant == -3

SmiIsValid(value) == kSmiMinValue <= value /\ value <= kSmiMaxValue
\* IsSmiDouble(double): integral, not NaN, a valid Smi.
IsSmiDouble(d) == d.frac = kIntegral /\ SmiIsValid(d.k)
\* DoubleToInt32(double): NaN gives 0, else the truncation.
DoubleToInt32(d) == IF d.frac = kIsNaN THEN 0 ELSE d.k
FastD2I(d) == d.k

RootIsOddball(index) ==
  index \in {kUndefinedValue, kTrueValue, kFalseValue, kNullValue}
RootIsHeapNumber(index) == index = kNanValue
\* Oddball::to_number_raw()
OddballToNumberRaw(index) ==
  IF index = kTrueValue THEN Double(1, kIntegral)
  ELSE IF index \in {kFalseValue, kNullValue} THEN Double(0, kIntegral)
  ELSE kNaN
RootHeapNumberValue(index) == kNaN

ConstantIsHeapNumber(k) == k \notin {kStringObject, kJSObjectConstant}

\* A node: its opcode, its input (0 when it has none), its value
\* representation, the payload of a constant, and whether it is part of a
\* block.
Node(op, input, repr, k, conv) ==
  [op |-> op, input |-> input, repr |-> repr, k |-> k, frac |-> kIntegral,
   conv |-> conv]

DoubleNode(op, repr, d) ==
  [op |-> op, input |-> 0, repr |-> repr, k |-> d.k, frac |-> d.frac,
   conv |-> FALSE]

\* The double a Float64Constant, or a Constant that is a HeapNumber, holds.
DoubleOf(node) == Double(node.k, node.frac)

StaticTypeForConstant(k) ==
  IF k = kStringObject THEN kString
  ELSE IF k = kJSObjectConstant THEN kJSReceiver
  ELSE kHeapNumber

StaticTypeForRoot(index) ==
  IF index = kNanValue THEN kHeapNumber ELSE kInternalizedString

StaticTypeForNode(node) ==
  IF node.repr \in {"Int32", "Uint32", "Float64"} THEN kNumber
  ELSE IF node.repr = "HoleyFloat64" THEN kNumberOrOddball
  ELSE IF node.op \in {"CheckedSmiTagInt32", "CheckedSmiTagUint32",
                       "CheckedSmiTagFloat64", "UnsafeSmiTag", "SmiConstant"}
       THEN kSmi
  ELSE IF node.op \in {"Int32ToNumber", "Uint32ToNumber", "Float64ToTagged"}
       THEN kNumber
  ELSE IF node.op = "HoleyFloat64ToTagged" THEN kNumberOrOddball
  ELSE IF node.op = "RootConstant"
       THEN IF node.k \in {kTrueValue, kFalseValue} THEN kBoolean
            ELSE IF node.k \in {kUndefinedValue, kNullValue} THEN kOddball
            ELSE StaticTypeForRoot(node.k)
  ELSE IF node.op = "Constant" THEN StaticTypeForConstant(node.k)
  ELSE IF node.op = "ToNumberOrNumeric" THEN kNumber
  ELSE IF node.op \in {"LogicalNot", "TaggedEqual", "TaggedNotEqual",
                       "ToBoolean", "ToBooleanLogicalNot"}
       THEN kBoolean
  ELSE kUnknown

NoInfo ==
  [present |-> FALSE, type |-> kUnknown, tagged |-> nullptr, int32 |-> nullptr,
   truncated_int32_to_number |-> nullptr, float64 |-> nullptr]

\* A builder state and a returned node.
Ret(st, res) == [st |-> st, res |-> res]

\* AddNewNode<Op>({input}): one more node at the end of the current block.
AddNewNode(st, op, input, repr) ==
  Ret([st EXCEPT !.nodes = Append(@, Node(op, input, repr, 0, TRUE))],
      Len(st.nodes) + 1)

\* GetInt32Constant / GetFloat64Constant: the graph's node for that constant,
\* created on first use; constants are not part of any block.
GetConstantNode(st, op, repr, d) ==
  LET found == {i \in 1 .. Len(st.nodes) :
                  st.nodes[i].op = op /\ DoubleOf(st.nodes[i]) = d}
  IN IF found # {}
     THEN Ret(st, CHOOSE i \in found : TRUE)
     ELSE Ret([st EXCEPT !.nodes = Append(@, DoubleNode(op, repr, d))],
              Len(st.nodes) + 1)

GetInt32Constant(st, value) ==
  GetConstantNode(st, "Int32Constant", "Int32", Double(value, kIntegral))
GetFloat64Constant(st, d) ==
  GetConstantNode(st, "Float64Constant", "Float64", d)

\* known_node_aspects().GetOrCreateInfoFor(node)
GetOrCreateInfoFor(st, v) == [st EXCEPT !.info[v].present = TRUE]

\* alternative.set_<field>(node), which returns node
SetAlternative(r, v, field) ==
  Ret([r.st EXCEPT !.info[v][field] = r.res], r.res)

\* EnsureType(node, type, &old_type)
EnsureType(st, v, type) ==
  LET static_type == StaticTypeForNode(st.nodes[v])
  IN IF NodeTypeIs(static_type, type)
     THEN [st |-> st, ok |-> TRUE, old_type |-> static_type]
     ELSE LET st1 == GetOrCreateInfoFor(st, v)
              known == st1.info[v].type
          IN IF NodeTypeIs(known, type)
             THEN [st |-> st1, ok |-> TRUE, old_type |-> known]
             ELSE [st |-> [st1 EXCEPT !.info[v].type = CombineType(@, type)],
                   ok |-> FALSE, old_type |-> known]

BuildSmiUntag(st, v) ==
  LET e == EnsureType(st, v, kSmi)
  IN IF e.ok THEN AddNewNode(e.st, "UnsafeSmiUntag", v, "Int32")
     ELSE AddNewNode(e.st, "CheckedSmiUntag", v, "Int32")

TaggedToFloat64ConversionTypeToNodeType(conversion_type) ==
  IF conversion_type = "kOnlyNumber" THEN kNumber ELSE kNumberOrOddball

BuildNumberOrOddballToFloat64(st, v, conversion_type) ==
  LET e == EnsureType(st, v,
                      TaggedToFloat64ConversionTypeToNodeType(conversion_type))
  IN IF e.ok
     THEN IF e.old_type = kSmi
          THEN LET untagged_smi == AddNewNode(e.st, "UnsafeSmiUntag", v, "Int32")
               IN AddNewNode(untagged_smi.st, "ChangeInt32ToFloat64",
                             untagged_smi.res, "Float64")
          ELSE AddNewNode(e.st, "UncheckedNumberOrOddballToFloat64", v,
                          "Float64")
     ELSE AddNewNode(e.st, "CheckedNumberOrOddballToFloat64", v, "Float64")

ToNumberHintToNodeType(hint) ==
  IF hint = "kAssumeSmi" THEN kSmi
  ELSE IF hint \in {"kDisallowToNumber", "kAssumeNumber"} THEN kNumber
  ELSE kNumberOrOddball

ToNumberHintToConversionType(hint) ==
  IF hint \in {"kDisallowToNumber", "kAssumeNumber"} THEN "kOnlyNumber"
  ELSE "kNumberOrOddball"

GetTaggedValue(st, v) ==
  LET node == st.nodes[v]
      st1 == GetOrCreateInfoFor(st, v)
      info == st1.info[v]
  IN IF node.repr = "Tagged" THEN Ret(st, v)
     ELSE IF info.tagged # nullptr THEN Ret(st1, info.tagged)
     ELSE IF node.repr = "Int32"
          THEN IF NodeTypeIsSmi(info.type)
               THEN SetAlternative(AddNewNode(st1, "UnsafeSmiTag", v, "Tagged"),
                                   v, "tagged")
               ELSE SetAlternative(AddNewNode(st1, "Int32ToNumber", v, "Tagged"),
                                   v, "tagged")
     ELSE IF node.repr = "Uint32"
          THEN IF NodeTypeIsSmi(info.type)
               THEN SetAlternative(AddNewNode(st1, "UnsafeSmiTag", v, "Tagged"),
                                   v, "tagged")
               ELSE SetAlternative(AddNewNode(st1, "Uint32ToNumber", v, "Tagged"),
                                   v, "tagged")
     ELSE IF node.repr = "Float64"
          THEN SetAlternative(AddNewNode(st1, "Float64ToTagged", v, "Tagged"),
                              v, "tagged")
     ELSE SetAlternative(AddNewNode(st1, "HoleyFloat64ToTagged", v, "Tagged"),
                         v, "tagged")

\* The part of GetTruncatedInt32ForToNumber after the constants.
GetTruncatedInt32ForToNumberCached(st, v, hint) ==
  LET node == st.nodes[v]
      st1 == GetOrCreateInfoFor(st, v)
      info == st1.info[v]
  IN IF info.int32 # nullptr THEN Ret(st1, info.int32)
     ELSE IF info.truncated_int32_to_number # nullptr
          THEN Ret(st1, info.truncated_int32_to_number)
     ELSE IF node.repr = "Tagged"
          THEN LET desired_type == ToNumberHintToNodeType(hint)
                   e == EnsureType(st1, v, desired_type)
               IN IF NodeTypeIsSmi(e.old_type)
                  THEN SetAlternative(
                         AddNewNode(e.st, "UnsafeSmiUntag", v, "Int32"),
                         v, "int32")
                  ELSE IF desired_type = kSmi
                  THEN SetAlternative(
                         AddNewNode(e.st, "CheckedSmiUntag", v, "Int32"),
                         v, "int32")
                  ELSE IF NodeTypeIs(e.old_type, desired_type)
                  THEN SetAlternative(
                         AddNewNode(e.st, "TruncateNumberOrOddballToInt32", v,
                                    "Int32"),
                         v, "truncated_int32_to_number")
                  ELSE SetAlternative(
                         AddNewNode(e.st,
                                    "CheckedTruncateNumberOrOddballToInt32", v,
                                    "Int32"),
                         v, "truncated_int32_to_number")
     ELSE \* kFloat64, kHoleyFloat64
          SetAlternative(AddNewNode(st1, "TruncateFloat64ToInt32", v, "Int32"),
                         v, "truncated_int32_to_number")

GetTruncatedInt32ForToNumber(st, v, hint) ==
  LET node == st.nodes[v]
  IN IF node.repr = "Int32" THEN Ret(st, v)
     ELSE IF node.repr = "Uint32"
          THEN \* cheap, so not cached
               AddNewNode(st, "TruncateUint32ToInt32", v, "Int32")
     ELSE IF node.op = "Constant" /\ ConstantIsHeapNumber(node.k)
             /\ SmiIsValid(DoubleToInt32(DoubleOf(node)))
          THEN GetInt32Constant(st, DoubleToInt32(DoubleOf(node)))
     ELSE IF node.op = "SmiConstant" THEN GetInt32Constant(st, node.k)
     ELSE IF node.op = "RootConstant" /\ RootIsOddball(node.k)
          THEN GetInt32Constant(st, DoubleToInt32(OddballToNumberRaw(node.k)))
     ELSE IF node.op = "Float64Constant"
             /\ SmiIsValid(DoubleToInt32(DoubleOf(node)))
          THEN GetInt32Constant(st, DoubleToInt32(DoubleOf(node)))
     ELSE GetTruncatedInt32ForToNumberCached(st, v, hint)

\* GetInt32 without the lookup of the cached int32 alternative.
GetInt32IgnoringAlternative(st, v) ==
  LET node == st.nodes[v]
      st1 == GetOrCreateInfoFor(st, v)
      info == st1.info[v]
  IN IF node.repr = "Int32" THEN Ret(st, v)
     ELSE IF node.op = "SmiConstant" THEN GetInt32Constant(st, node.k)
     ELSE IF node.op = "Float64Constant" /\ IsSmiDouble(DoubleOf(node))
          THEN GetInt32Constant(st, FastD2I(DoubleOf(node)))
     ELSE IF node.repr = "Tagged"
          THEN SetAlternative(BuildSmiUntag(st1, v), v, "int32")
     ELSE IF node.repr = "Uint32"
          THEN SetAlternative(
                 AddNewNode(st1, "CheckedUint32ToInt32", v, "Int32"),
                 v, "int32")
     ELSE SetAlternative(
            AddNewNode(st1, "CheckedTruncateFloat64ToInt32", v, "Int32"),
            v, "int32")

GetInt32(st, v) ==
  LET node == st.nodes[v]
      st1 == GetOrCreateInfoFor(st, v)
      info == st1.info[v]
  IN IF node.repr = "Int32" THEN Ret(st, v)
     ELSE IF node.op = "SmiConstant" THEN GetInt32Constant(st, node.k)
     ELSE IF node.op = "Float64Constant" /\ IsSmiDouble(DoubleOf(node))
          THEN GetInt32Constant(st, FastD2I(DoubleOf(node)))
     ELSE IF info.int32 # nullptr THEN Ret(st1, info.int32)
     ELSE IF node.repr = "Tagged"
          THEN SetAlternative(BuildSmiUntag(st1, v), v, "int32")
     ELSE IF node.repr = "Uint32"
          THEN IF NodeTypeIsSmi(info.type)
               THEN SetAlternative(
                      AddNewNode(st1, "TruncateUint32ToInt32", v, "Int32"),
                      v, "int32")
               ELSE SetAlternative(
                      AddNewNode(st1, "CheckedUint32ToInt32", v, "Int32"),
                      v, "int32")
     ELSE \* kFloat64, kHoleyFloat64
          SetAlternative(
            AddNewNode(st1, "CheckedTruncateFloat64ToInt32", v, "Int32"),
            v, "int32")

\* Whether GetFloat64ForToNumber folds the node to a Float64Constant, and to
\* which value.
Float64ConstantFolds(node, hint) ==
  \/ node.op = "Constant" /\ ConstantIsHeapNumber(node.k)
  \/ node.op \in {"SmiConstant", "Int32Constant"}
  \/ node.op = "RootConstant" /\ hint # "kDisallowToNumber"
       /\ RootIsOddball(node.k)
  \/ node.op = "RootConstant" /\ RootIsHeapNumber(node.k)

Float64ConstantFolded(node, hint) ==
  IF node.op = "Constant" THEN DoubleOf(node)
  ELSE IF node.op \in {"SmiConstant", "Int32Constant"}
       THEN Double(node.k, kIntegral)
  ELSE IF hint # "kDisallowToNumber" /\ RootIsOddball(node.k)
       THEN OddballToNumberRaw(node.k)
  ELSE RootHeapNumberValue(node.k)

\* The kInt32, kUint32 and kHoleyFloat64 cases of GetFloat64ForToNumber, and
\* the kTagged case for the hints other than kAssumeSmi.
GetFloat64ForToNumberOther(st1, v, hint) ==
  LET node == st1.nodes[v]
  IN IF node.repr = "Tagged"
     THEN IF hint \in {"kDisallowToNumber", "kAssumeNumber"}
          THEN SetAlternative(
                 BuildNumberOrOddballToFloat64(st1, v, "kOnlyNumber"),
                 v, "float64")
          ELSE LET float64_node ==
                     BuildNumberOrOddballToFloat64(st1, v, "kNumberOrOddball")
               IN IF NodeTypeIsNumber(float64_node.st.info[v].type)
                  THEN SetAlternative(float64_node, v, "float64")
                  ELSE float64_node
     ELSE IF node.repr = "Int32"
          THEN SetAlternative(
                 AddNewNode(st1, "ChangeInt32ToFloat64", v, "Float64"),
                 v, "float64")
     ELSE IF node.repr = "Uint32"
          THEN SetAlternative(
                 AddNewNode(st1, "ChangeUint32ToFloat64", v, "Float64"),
                 v, "float64")
     ELSE \* kHoleyFloat64
          IF hint # "kAssumeNumberOrOddball"
          THEN SetAlternative(
                 AddNewNode(st1, "CheckedHoleyFloat64ToFloat64", v, "Float64"),
                 v, "float64")
          ELSE AddNewNode(st1, "HoleyFloat64ToMaybeNanFloat64", v, "Float64")

RECURSIVE GetFloat64ForToNumber(_, _, _)
GetFloat64ForToNumber(st, v, hint) ==
  LET node == st.nodes[v]
      st1 == GetOrCreateInfoFor(st, v)
      info == st1.info[v]
  IN IF node.repr = "Float64" THEN Ret(st, v)
     ELSE IF Float64ConstantFolds(node, hint)
          THEN GetFloat64Constant(st, Float64ConstantFolded(node, hint))
     ELSE IF info.float64 # nullptr THEN Ret(st1, info.float64)
     ELSE IF node.repr = "Tagged" /\ hint = "kAssumeSmi"
          THEN \* GetFloat64(GetInt32(value))
               LET as_int32 == GetInt32(st1, v)
               IN GetFloat64ForToNumber(as_int32.st, as_int32.res,
                                        "kDisallowToNumber")
     ELSE GetFloat64ForToNumberOther(st1, v, hint)

GetFloat64(st, v) == GetFloat64ForToNumber(st, v, "kDisallowToNumber")

\* The value nodes a conversion may be asked of before any conversion exists.
ConversionSources ==
  {Node("InitialValue", 0, "Tagged", 0, FALSE),
   Node("ToNumberOrNumeric", 0, "Tagged", 0, FALSE),
   Node("Int32AddWithOverflow", 0, "Int32", 0, FALSE),
   Node("Int32ShiftRightLogical", 0, "Uint32", 0, FALSE),
   Node("Float64Add", 0, "Float64", 0, FALSE),
   Node("LoadHoleyFixedDoubleArrayElement", 0, "HoleyFloat64", 0, FALSE),
   Node("SmiConstant", 0, "Tagged", 5, FALSE),
   Node("Int32Constant", 0, "Int32", 5, FALSE),
   DoubleNode("Float64Constant", "Float64", Double(5, kIntegral)),
   DoubleNode("Float64Constant", "Float64", Double(1, kPlusHalf)),
   DoubleNode("Float64Constant", "Float64", Double(kSmiMaxValue + 1, kIntegral)),
   Node("RootConstant", 0, "Tagged", kUndefinedValue, FALSE),
   Node("RootConstant", 0, "Tagged", kTrueValue, FALSE),
   Node("RootConstant", 0, "Tagged", kempty_string, FALSE),
   Node("RootConstant", 0, "Tagged", kNanValue, FALSE),
   DoubleNode("Constant", "Tagged", Double(1, kPlusHalf)),
   Node("Constant", 0, "Tagged", kStringObject, FALSE)}

\* The types the builder may have recorded for the source before.
ConversionKnownTypes == {kUnknown, kSmi, kNumber, kNumberOrOddball}

NoRequest == [fn |-> "none", value |-> 0, hint |-> "none", result |-> 0,
              added |-> 0]

InitCV ==
  /\ \E source \in ConversionSources : cv_nodes = <<source>>
  /\ \E type \in ConversionKnownTypes :
       cv_info = [n \in NodeIds |->
                    IF n = 1 /\ type # kUnknown
                    THEN [NoInfo EXCEPT !.present = TRUE, !.type = type]
                    ELSE NoInfo]
  /\ cv_requests = 0
  /\ cv_prev = NoRequest
  /\ cv_last = NoRequest

ParkedCV ==
  /\ cv_nodes = <<>>
  /\ cv_info = <<>>
  /\ cv_requests = 0
  /\ cv_prev = <<>>
  /\ cv_last = <<>>

CVState == [nodes |-> cv_nodes, info |-> cv_info]

\* The conversion nodes a request put into the graph.
AddedConversions(before, after) ==
  Cardinality({i \in (Len(before) + 1) .. Len(after) : after[i].conv})

\* The builder's state and history after a request that returned r.
Requested(fn, v, hint, r) ==
  /\ cv_nodes' = r.st.nodes
  /\ cv_info' = r.st.info
  /\ cv_requests' = cv_requests + 1
  /\ cv_prev' = cv_last
  /\ cv_last' = [fn |-> fn, value |-> v, hint |-> hint, result |-> r.res,
                 added |-> AddedConversions(cv_nodes, r.st.nodes)]
  /\ UNCHANGED OutsideCV

CanRequest(v) == v \in 1 .. Len(cv_nodes) /\ cv_requests < MaxRequests

RequestTaggedValue(v) ==
  /\ CanRequest(v)
  /\ Requested("GetTaggedValue", v, "none", GetTaggedValue(CVState, v))

RequestInt32(v) ==
  /\ CanRequest(v)
  /\ Requested("GetInt32", v, "none", GetInt32(CVState, v))

RequestFloat64(v) ==
  /\ CanRequest(v)
  /\ Requested("GetFloat64", v, "none", GetFloat64(CVState, v))

RequestFloat64ForToNumber(v, hint) ==
  /\ CanRequest(v)
  /\ Requested("GetFloat64ForToNumber", v, hint,
               GetFloat64ForToNumber(CVState, v, hint))

RequestTruncatedInt32ForToNumber(v, hint) ==
  /\ CanRequest(v)
  /\ Requested("GetTruncatedInt32ForToNumber", v, hint,
               GetTruncatedInt32ForToNumber(CVState, v, hint))

(***************************************************************************)
(* Map checks: KnownMapsMerger and BuildCheckMaps                          *)
(***************************************************************************)
\* The maps of the model: 1 a stable JSObject map, 2 an unstable JSObject map
\* that is a migration target, 3 a stable String map, 4 a stable HeapNumber
\* map, any further one a stable JSObject map.
MaxMaps == 3
MaxMapOps == 3
\* The operations on an object that precede a named access of it.
MaxAccessPrefix == 1
MapIds == 1 .. MaxMaps
kNoMap == 0

MapKind(map) ==
  IF map = 3 THEN "String" ELSE IF map = 4 THEN "HeapNumber" ELSE "JSObject"
MapIsStable(map) == map # 2
MapIsMigrationTarget(map) == map = 2

StaticTypeForMap(map) ==
  IF MapKind(map) = "String" THEN kString
  ELSE IF MapKind(map) = "HeapNumber" THEN kHeapNumber
  ELSE kJSReceiver

\* IsInstanceOfNodeType for one type of NODE_TYPE_LIST.
IsInstanceOfNamedNodeType(map, name) ==
  IF name \in {"Unknown", "ObjectWithKnownMap", "AnyHeapObject",
               "HeapObjectWithKnownMap"} THEN TRUE
  ELSE IF name \in {"NumberOrOddball", "Number", "HeapNumber"}
       THEN MapKind(map) = "HeapNumber"
  ELSE IF name \in {"Name", "String"} THEN MapKind(map) = "String"
  ELSE IF name = "JSReceiver" THEN MapKind(map) = "JSObject"
  ELSE FALSE

\* IsInstanceOfNodeType(map, type, broker): an object with this map can be of
\* every listed type that `type` implies.
IsInstanceOfNodeType(map, type) ==
  \A name \in DOMAIN NamedNodeTypes :
    NodeTypeIs(type, NamedNodeTypes[name]) =>
      IsInstanceOfNamedNodeType(map, name)

\* The type KnownMapsMerger::InsertMap narrows node_type_ by.
InsertedMapType(map) ==
  IF StaticTypeForMap(map) = kHeapNumber
  THEN IntersectType(kHeapNumber, kSmi)
  ELSE StaticTypeForMap(map)

RECURSIVE IntersectTypesOf(_)
IntersectTypesOf(maps) ==
  IF maps = {} THEN kAllNodeTypeBits
  ELSE LET map == CHOOSE m \in maps : TRUE
       IN IntersectType(IntersectTypesOf(maps \ {map}), InsertedMapType(map))

\* The merger after the InsertMap calls for `maps`.
MergerWith(maps, subset, existing, empty_means_unknown) ==
  [intersect_set |-> maps,
   known_maps_are_subset_of_requested_maps |-> subset,
   existing_known_maps_found |-> existing,
   emit_check_with_migration |-> \E m \in maps : MapIsMigrationTarget(m),
   any_map_is_unstable |-> \E m \in maps : ~MapIsStable(m),
   node_type |-> IF empty_means_unknown /\ maps = {} THEN kUnknown
                 ELSE IntersectTypesOf(maps)]

\* IntersectWithKnownNodeAspects that does not filter by the object's type.
IntersectWithKnownNodeAspectsNeverSubset(info, requested_maps) ==
  MergerWith(IF info.present /\ info.possible_maps_are_known
             THEN info.possible_maps \cap requested_maps
             ELSE requested_maps, FALSE, info.present
                                         /\ info.possible_maps_are_known, TRUE)

\* KnownMapsMerger::IntersectWithKnownNodeAspects
IntersectWithKnownNodeAspects(info, requested_maps) ==
  LET type == IF info.present THEN info.type ELSE kUnknown
  IN IF info.present /\ info.possible_maps_are_known
     THEN MergerWith({m \in info.possible_maps :
                        m \in requested_maps /\ IsInstanceOfNodeType(m, type)},
                     \A m \in info.possible_maps : m \in requested_maps,
                     TRUE, TRUE)
     ELSE MergerWith(requested_maps, FALSE, FALSE, FALSE)

\* NodeInfo::SetPossibleMaps(possible_maps, any_map_is_unstable, possible_type)
SetPossibleMaps(info, possible_maps, any_map_is_unstable, possible_type) ==
  [info EXCEPT !.present = TRUE,
               !.possible_maps = possible_maps,
               !.possible_maps_are_known = TRUE,
               !.any_map_is_unstable = any_map_is_unstable,
               !.type = CombineType(@, possible_type)]

GetCheckType(type) ==
  IF NodeTypeIs(type, kAnyHeapObject) THEN "kOmitHeapObjectCheck"
  ELSE "kCheckHeapObject"

\* TryGetConstant(object): the map of the constant the object is or is known
\* to be, or kNoMap.
TryGetConstantMap(object, info) ==
  IF object.node.op = "Constant" THEN object.map
  ELSE IF info.present THEN info.constant
  ELSE kNoMap

MapCheckNode(op, maps, check_type) ==
  [op |-> op, maps |-> maps, check_type |-> check_type]

\* What one call of BuildCheckMaps does.
MapCheckOutcome(info, emitted, deps, any_unstable, result, merger) ==
  [info |-> info, emitted |-> emitted, deps |-> deps,
   any_unstable |-> any_unstable, result |-> result, merger |-> merger]

NoMerger == MergerWith({}, FALSE, FALSE, FALSE)

\* The payload of a Constant whose object has the given map.
ConstantOfMap(map) ==
  IF MapKind(map) = "String" THEN kStringObject
  ELSE IF MapKind(map) = "HeapNumber" THEN 1
  ELSE kJSObjectConstant

NoMapInfo ==
  [present |-> FALSE, type |-> kUnknown, constant |-> kNoMap,
   possible_maps |-> {}, possible_maps_are_known |-> FALSE,
   any_map_is_unstable |-> FALSE]

\* EmitUnconditionalDeopt(reason): the block ends in a Deopt control node and
\* the caller gets ReduceResult::DoneWithAbort().
EmitUnconditionalDeopt(info, reason, merger) ==
  MapCheckOutcome(info, <<MapCheckNode("Deopt", {}, reason)>>, {}, FALSE,
                  "DoneWithAbort", merger)

\* BuildCheckMaps without the test for an empty intersection.
BuildCheckMapsNoDeopt(object, info, maps) ==
  LET known_info == [info EXCEPT !.present = TRUE,
                                 !.type = CombineType(
                                            @, StaticTypeForNode(object.node))]
      merger == IntersectWithKnownNodeAspects(known_info, maps)
  IN IF merger.known_maps_are_subset_of_requested_maps
     THEN MapCheckOutcome(known_info, <<>>, {}, FALSE, "Done", merger)
     ELSE MapCheckOutcome(
            SetPossibleMaps(known_info, merger.intersect_set,
                            merger.any_map_is_unstable, merger.node_type),
            <<MapCheckNode("CheckMaps", merger.intersect_set,
                           GetCheckType(known_info.type))>>,
            {}, merger.any_map_is_unstable, "Done", merger)

\* MaglevGraphBuilder::BuildCheckMaps(object, maps), with
\* KnownMapsMerger::UpdateKnownNodeAspects.
BuildCheckMaps(object, info, maps) ==
  LET constant_map == TryGetConstantMap(object, info)
      known_info == [info EXCEPT !.present = TRUE,
                                 !.type = CombineType(
                                            @, StaticTypeForNode(object.node))]
      merger == IntersectWithKnownNodeAspects(known_info, maps)
  IN IF constant_map # kNoMap /\ constant_map \in maps
        /\ MapIsStable(constant_map)
     THEN MapCheckOutcome(info, <<>>, {constant_map}, FALSE, "Done", NoMerger)
     ELSE IF merger.known_maps_are_subset_of_requested_maps
     THEN MapCheckOutcome(
            IF ~NodeTypeIs(known_info.type, merger.node_type)
            THEN [known_info EXCEPT
                    !.type = IntersectType(@, merger.node_type)]
            ELSE known_info,
            <<>>, {}, FALSE, "Done", merger)
     ELSE IF merger.intersect_set = {}
     THEN EmitUnconditionalDeopt(known_info, "kWrongMap", merger)
     ELSE MapCheckOutcome(
            SetPossibleMaps(known_info, merger.intersect_set,
                            merger.any_map_is_unstable, merger.node_type),
            <<MapCheckNode(IF merger.emit_check_with_migration
                           THEN "CheckMapsWithMigration" ELSE "CheckMaps",
                           merger.intersect_set,
                           GetCheckType(known_info.type))>>,
            IF merger.existing_known_maps_found THEN {}
            ELSE {m \in merger.intersect_set : MapIsStable(m)},
            merger.any_map_is_unstable, "Done", merger)

\* BuildCheckString, BuildCheckNumber, BuildCheckJSReceiver and
\* BuildCheckHeapObject: EnsureType and, when it fails, the check node.
BuildCheckType(object, info, type, node_op) ==
  LET r == EnsureType([nodes |-> <<object.node>>, info |-> <<info>>], 1, type)
  IN MapCheckOutcome(r.st.info[1],
                     IF r.ok THEN <<>>
                     ELSE <<MapCheckNode(node_op, {},
                                         GetCheckType(r.old_type))>>,
                     {}, FALSE, "Done", NoMerger)

HasOnlyStringMaps(maps) == \A m \in maps : MapKind(m) = "String"

HasOnlyNumberMaps(maps) == \A m \in maps : MapKind(m) = "HeapNumber"

\* BuildCallBuiltin<kBuiltin>(inputs, feedback_source): one CallBuiltin node.
BuildCallBuiltin(builtin) == MapCheckNode("CallBuiltin", {}, builtin)

NamedAccessModes == {"kLoad", "kStore", "kDefine", "kHas"}

\* What the broker answers for the feedback's name: whether
\* FinalizePropertyAccessInfos fails, merges the maps into one access info or
\* leaves several, and whether the access itself can then be built.
BrokerAnswers ==
  [access_infos : {"invalid", "monomorphic", "polymorphic"},
   access_is_supported : BOOLEAN]

\* MaglevGraphBuilder::TryBuildPropertyAccess after the monomorphic checks
\* `checked`.
TryBuildPropertyAccess(checked, access_mode, broker) ==
  IF access_mode = "kHas" \/ ~broker.access_is_supported
  THEN [checked EXCEPT !.result = "Fail"]
  ELSE [checked EXCEPT
          !.emitted = @ \o <<MapCheckNode(IF access_mode = "kLoad"
                                          THEN "LoadField" ELSE "StoreField",
                                          {}, access_mode)>>,
          !.result = IF access_mode = "kLoad" THEN "DoneWithValue"
                     ELSE "Done"]

\* TryBuildNamedAccess, monomorphic case: the check of the lookup start
\* object and the access.
BuildMonomorphicNamedAccess(object, info, maps, access_mode, broker) ==
  LET checked ==
        IF HasOnlyStringMaps(maps)
        THEN BuildCheckType(object, info, kString, "CheckString")
        ELSE IF HasOnlyNumberMaps(maps)
        THEN BuildCheckType(object, info, kNumber, "CheckNumber")
        ELSE BuildCheckMaps(object, info, maps)
  IN IF checked.result = "DoneWithAbort" THEN checked
     ELSE TryBuildPropertyAccess(checked, access_mode, broker)

\* TryBuildNamedAccess, polymorphic case.
BuildPolymorphicNamedAccess(info, maps, access_mode, broker) ==
  IF access_mode # "kLoad"
     \/ ~broker.access_is_supported
     \/ \E m \in maps : MapIsMigrationTarget(m)
  THEN MapCheckOutcome(info, <<>>, {}, FALSE, "Fail", NoMerger)
  ELSE MapCheckOutcome(
         info, <<MapCheckNode("LoadPolymorphicTaggedField", maps, "kLoad")>>,
         {}, FALSE, "DoneWithValue", NoMerger)

\* TryBuildNamedAccess once the feedback is known to have maps.
BuildNamedAccessWithMaps(object, info, feedback_maps, access_mode, broker) ==
  LET constant_map == TryGetConstantMap(object, info)
      inferred_maps ==
        IF constant_map # kNoMap THEN {constant_map}
        ELSE IntersectWithKnownNodeAspects(info, feedback_maps).intersect_set
      \* one map has one access info
      access_infos ==
        IF broker.access_infos = "polymorphic"
           /\ Cardinality(inferred_maps) = 1
        THEN "monomorphic" ELSE broker.access_infos
  IN IF inferred_maps = {}
     THEN EmitUnconditionalDeopt(info, "kWrongMap", NoMerger)
     ELSE IF access_infos = "invalid"
     THEN MapCheckOutcome(info, <<>>, {}, FALSE, "Fail", NoMerger)
     ELSE IF access_infos = "monomorphic"
     THEN BuildMonomorphicNamedAccess(object, info, inferred_maps,
                                      access_mode, broker)
     ELSE BuildPolymorphicNamedAccess(info, inferred_maps, access_mode,
                                      broker)

\* TryBuildNamedAccess that takes the megamorphic path whatever the receiver
\* is.
TryBuildNamedAccessAnyReceiver(object, info, receiver, feedback, mode) ==
  IF feedback.maps = {}
  THEN IF mode # "kLoad"
       THEN MapCheckOutcome(info, <<>>, {}, FALSE, "Fail", NoMerger)
       ELSE MapCheckOutcome(info, <<BuildCallBuiltin("kLoadIC_Megamorphic")>>,
                            {}, FALSE, "DoneWithValue", NoMerger)
  ELSE BuildNamedAccessWithMaps(object, info, feedback.maps, mode,
                                feedback.broker)

\* MaglevGraphBuilder::TryBuildNamedAccess(receiver, lookup_start_object,
\* feedback, feedback_source, access_mode); `object` is the lookup start
\* object and `info` its NodeInfo.
TryBuildNamedAccess(object, info, receiver, feedback, mode) ==
  IF feedback.maps = {}
  THEN IF mode # "kLoad"
       THEN MapCheckOutcome(info, <<>>, {}, FALSE, "Fail", NoMerger)
       ELSE IF receiver # object
       THEN MapCheckOutcome(info, <<>>, {}, FALSE, "Fail", NoMerger)
       ELSE MapCheckOutcome(info, <<BuildCallBuiltin("kLoadIC_Megamorphic")>>,
                            {}, FALSE, "DoneWithValue", NoMerger)
  ELSE BuildNamedAccessWithMaps(object, info, feedback.maps, mode,
                                feedback.broker)

\* A receiver that is not the lookup start object (a load from super).
OtherReceiver ==
  [node |-> Node("InitialValue", nullptr, "Tagged", 1, FALSE), map |-> kNoMap]

MapObjects ==
  {[node |-> Node("InitialValue", nullptr, "Tagged", 0, FALSE),
    map |-> kNoMap]}
  \cup {[node |-> Node("Constant", nullptr, "Tagged", ConstantOfMap(m),
                       FALSE), map |-> m] : m \in MapIds}

RequestedMaps == SUBSET MapIds \ {{}}

NoMapCheck ==
  [op |-> "none", maps |-> {}, info |-> NoMapInfo, constant_map |-> kNoMap,
   merged |-> FALSE, merger |-> NoMerger, emitted |-> <<>>,
   result |-> "none", access_mode |-> "none",
   receiver_is_lookup_start |-> FALSE]

InitMP ==
  /\ mp_object \in MapObjects
  /\ mp_info = NoMapInfo
  /\ mp_emitted = <<>>
  /\ mp_deps = {}
  /\ mp_any_unstable = FALSE
  /\ mp_aborted = FALSE
  /\ mp_ops = 0
  /\ mp_last = NoMapCheck

ParkedMP ==
  /\ mp_object = <<>>
  /\ mp_info = <<>>
  /\ mp_emitted = <<>>
  /\ mp_deps = {}
  /\ mp_any_unstable = FALSE
  /\ mp_aborted = FALSE
  /\ mp_ops = 0
  /\ mp_last = <<>>

\* The builder goes on adding nodes for the object: the block has not ended.
CanBuild == ~mp_aborted /\ mp_ops < MaxMapOps

\* A call BuildCheckMaps(object, maps) from a bytecode visitor.
CheckMapsOf(maps) ==
  /\ CanBuild
  /\ mp_ops' = mp_ops + 1
  /\ LET out == BuildCheckMaps(mp_object, mp_info, maps)
         constant_map == TryGetConstantMap(mp_object, mp_info)
     IN /\ mp_info' = out.info
        /\ mp_emitted' = mp_emitted \o out.emitted
        /\ mp_deps' = mp_deps \cup out.deps
        /\ mp_any_unstable' = (mp_any_unstable \/ out.any_unstable)
        /\ mp_aborted' = (out.result = "DoneWithAbort")
        /\ mp_last' = [NoMapCheck EXCEPT
                         !.op = "BuildCheckMaps", !.maps = maps,
                         !.info = mp_info, !.constant_map = constant_map,
                         !.merged = ~(constant_map # kNoMap
                                      /\ constant_map \in maps
                                      /\ MapIsStable(constant_map)),
                         !.merger = out.merger, !.emitted = out.emitted,
                         !.result = out.result]
  /\ UNCHANGED <<mp_object, OutsideMP>>

\* A call of BuildCheckString, BuildCheckNumber, BuildCheckJSReceiver or
\* BuildCheckHeapObject from a bytecode visitor.
BuildTypeCheck(op, type, node_op) ==
  /\ CanBuild
  /\ mp_ops' = mp_ops + 1
  /\ LET out == BuildCheckType(mp_object, mp_info, type, node_op)
     IN /\ mp_info' = out.info
        /\ mp_emitted' = mp_emitted \o out.emitted
        /\ mp_last' = [NoMapCheck EXCEPT !.op = op, !.info = mp_info,
                                         !.emitted = out.emitted,
                                         !.result = "Done"]
  /\ UNCHANGED <<mp_object, mp_deps, mp_any_unstable, mp_aborted, OutsideMP>>

BuildCheckString == BuildTypeCheck("BuildCheckString", kString, "CheckString")

BuildCheckNumber == BuildTypeCheck("BuildCheckNumber", kNumber, "CheckNumber")

BuildCheckJSReceiver ==
  BuildTypeCheck("BuildCheckJSReceiver", kJSReceiver, "CheckInstanceType")

BuildCheckHeapObject ==
  BuildTypeCheck("BuildCheckHeapObject", kAnyHeapObject, "CheckHeapObject")

\* A call TryBuildNamedAccess(receiver, lookup_start_object, feedback,
\* feedback_source, access_mode) from a bytecode visitor, the object being
\* the lookup start object. The access is the last thing the visitor does
\* with the object.
NamedAccessOf(receiver, feedback, access_mode) ==
  /\ CanBuild
  /\ mp_ops <= MaxAccessPrefix
  /\ mp_ops' = MaxMapOps
  /\ LET out == TryBuildNamedAccess(mp_object, mp_info, receiver, feedback,
                                    access_mode)
     IN /\ mp_info' = out.info
        /\ mp_emitted' = mp_emitted \o out.emitted
        /\ mp_deps' = mp_deps \cup out.deps
        /\ mp_any_unstable' = (mp_any_unstable \/ out.any_unstable)
        /\ mp_aborted' = (out.result = "DoneWithAbort")
        /\ mp_last' = [NoMapCheck EXCEPT
                         !.op = "TryBuildNamedAccess", !.maps = feedback.maps,
                         !.info = mp_info, !.emitted = out.emitted,
                         !.result = out.result, !.access_mode = access_mode,
                         !.receiver_is_lookup_start = (receiver = mp_object)]
  /\ UNCHANGED <<mp_object, OutsideMP>>

\* MaglevGraphBuilder::SetKnownValue(node, ref) for an object with map `map`.
SetKnownValue(map) ==
  /\ CanBuild
  /\ mp_ops' = mp_ops + 1
  /\ mp_object.node.op # "Constant"
  /\ mp_info' = [mp_info EXCEPT
                   !.present = TRUE,
                   !.type = CombineType(
                              @, StaticTypeForConstant(ConstantOfMap(map))),
                   !.constant = map]
  /\ mp_last' = [NoMapCheck EXCEPT !.op = "SetKnownValue", !.info = mp_info,
                                   !.result = "Done"]
  /\ UNCHANGED <<mp_object, mp_emitted, mp_deps, mp_any_unstable, mp_aborted,
                 OutsideMP>>

(***************************************************************************)
(* Loop peeling: PeelLoop, MergeIntoFrameState, MergeDeadIntoFrameState,   *)
(* MergeDeadLoopIntoFrameState                                             *)
(***************************************************************************)
\* Bytecode offsets; every bytecode is one offset long and the bytecode has
\* no exception handlers (handler_table_size() = 0).
MaxOffset == 3
MaxPredecessors == 2
Offsets == 0 .. MaxOffset

NoMergeState ==
  [exists |-> FALSE, is_loop |-> FALSE, has_been_peeled |-> FALSE,
   predecessor_count |-> 0, predecessors_so_far |-> 0]

\* MergePointInterpreterFrameState::New(..., num_of_predecessors,
\* predecessor, liveness)
NewMergeState(num_of_predecessors) ==
  [exists |-> TRUE, is_loop |-> FALSE, has_been_peeled |-> FALSE,
   predecessor_count |-> num_of_predecessors, predecessors_so_far |-> 1]

\* A merge state for a loop header that is no loop merge state.
NewForJoin(predecessor_count, has_been_peeled) ==
  [exists |-> TRUE, is_loop |-> FALSE, has_been_peeled |-> has_been_peeled,
   predecessor_count |-> predecessor_count, predecessors_so_far |-> 0]

\* MergePointInterpreterFrameState::NewForLoop(..., predecessor_count, ...)
NewForLoop(predecessor_count, has_been_peeled) ==
  [exists |-> TRUE, is_loop |-> TRUE, has_been_peeled |-> has_been_peeled,
   predecessor_count |-> predecessor_count, predecessors_so_far |-> 0]

\* MergePointInterpreterFrameState::Merge
Merge(state) == [state EXCEPT !.predecessors_so_far = @ + 1]

\* A dead merge that leaves the predecessor count as it is.
MergeDeadUncounted(state) == state

\* MergePointInterpreterFrameState::MergeDead and MergeDeadLoop
MergeDead(state) == [state EXCEPT !.predecessor_count = @ - 1]

\* MergePointInterpreterFrameState::is_unreachable_loop: only the back edge
\* is left.
is_unreachable_loop(state) == state.is_loop /\ state.predecessor_count = 1

\* The part of the builder the merges work on.
PLState ==
  [predecessors |-> predecessors_, merge_states |-> merge_states_,
   decremented |-> decremented_predecessor_offsets_, dead |-> pl_dead]

\* What the history keeps of a call of MergeDeadIntoFrameState: predecessors_
\* and the merge state at the target before and after it.
NoDeadMerge ==
  [called |-> FALSE, target |-> 0, peeling |-> FALSE, recorded |-> FALSE,
   predecessors_before |-> 0, predecessors_after |-> 0,
   state_before |-> NoMergeState, state_after |-> NoMergeState]

DeadMerge(before, after, target, peeling) ==
  [called |-> TRUE, target |-> target, peeling |-> peeling,
   recorded |-> /\ Len(after.decremented) = Len(before.decremented) + 1
                /\ after.decremented[Len(after.decremented)] = target,
   predecessors_before |-> before.predecessors[target],
   predecessors_after |-> after.predecessors[target],
   state_before |-> before.merge_states[target],
   state_after |-> after.merge_states[target]]

\* MaglevGraphBuilder::MergeIntoFrameState(predecessor, target)
MergeIntoFrameState(st, target, is_loop_header) ==
  IF ~st.merge_states[target].exists
  THEN [st EXCEPT !.merge_states[target] =
                    NewMergeState(IF is_loop_header
                                  THEN st.predecessors[target] - 1
                                  ELSE st.predecessors[target])]
  ELSE [st EXCEPT !.merge_states[target] = Merge(@)]

\* A dead merge that records its target whether or not an iteration is being
\* peeled.
MergeDeadAlwaysRecorded(st, target, peeling) ==
  LET st1 == [st EXCEPT !.predecessors[target] = @ - 1,
                        !.decremented = Append(@, target)]
      merged == MergeDead(st1.merge_states[target])
      st2 == IF st1.merge_states[target].exists
             THEN [st1 EXCEPT !.merge_states[target] =
                                IF is_unreachable_loop(merged)
                                THEN NoMergeState ELSE merged]
             ELSE st1
  IN [st2 EXCEPT !.dead = DeadMerge(st, st2, target, peeling)]

\* MaglevGraphBuilder::MergeDeadIntoFrameState(target)
MergeDeadIntoFrameState(st, target, peeling) ==
  LET st1 == [st EXCEPT !.predecessors[target] = @ - 1,
                        !.decremented = IF peeling THEN Append(@, target)
                                        ELSE @]
      merged == MergeDead(st1.merge_states[target])
      st2 == IF st1.merge_states[target].exists
             THEN [st1 EXCEPT !.merge_states[target] =
                                IF is_unreachable_loop(merged)
                                THEN NoMergeState ELSE merged]
             ELSE st1
  IN [st2 EXCEPT !.dead = DeadMerge(st, st2, target, peeling)]

\* MaglevGraphBuilder::MergeDeadLoopIntoFrameState(target)
MergeDeadLoopIntoFrameState(st, target, peeling) ==
  IF ~st.merge_states[target].exists THEN st
  ELSE LET st1 == [st EXCEPT !.predecessors[target] = @ - 1,
                             !.decremented = IF peeling THEN Append(@, target)
                                             ELSE @]
       IN IF is_unreachable_loop(st1.merge_states[target]) THEN st1
          ELSE [st1 EXCEPT !.merge_states[target] = MergeDead(@)]

\* The restore loop of PeelLoop with the comparison reversed.
RECURSIVE RestoredPredecessorsBeyond(_, _, _)
RestoredPredecessorsBeyond(predecessors, decremented, current_offset) ==
  IF decremented = <<>> THEN predecessors
  ELSE LET back == decremented[Len(decremented)]
       IN RestoredPredecessorsBeyond(
            IF back > current_offset
            THEN [predecessors EXCEPT ![back] = @ + 1] ELSE predecessors,
            SubSeq(decremented, 1, Len(decremented) - 1), current_offset)

\* PeelLoop: "Reset predecessors as if the loop body had not been visited."
RECURSIVE RestoredPredecessors(_, _, _)
RestoredPredecessors(predecessors, decremented, current_offset) ==
  IF decremented = <<>> THEN predecessors
  ELSE LET back == decremented[Len(decremented)]
       IN RestoredPredecessors(
            IF back <= current_offset
            THEN [predecessors EXCEPT ![back] = @ + 1] ELSE predecessors,
            SubSeq(decremented, 1, Len(decremented) - 1), current_offset)

\* PeelLoop: the merge states of the loop body are dropped.
ResetMergeStates(merge_states, loop_header, current_offset) ==
  [offset \in Offsets |->
     IF loop_header <= offset /\ offset <= current_offset
     THEN NoMergeState ELSE merge_states[offset]]

InitPL ==
  /\ pl_loop_header \in 0 .. (MaxOffset - 2)
  /\ pl_jump_loop \in (pl_loop_header + 1) .. (MaxOffset - 1)
  /\ predecessors_ \in [Offsets -> 1 .. MaxPredecessors]
  /\ \E later_loop \in BOOLEAN, entered_by_jump \in BOOLEAN :
       merge_states_ =
         [offset \in Offsets |->
            IF later_loop /\ offset = MaxOffset
               /\ predecessors_[offset] = MaxPredecessors
            THEN NewForLoop(predecessors_[offset], FALSE)
            ELSE IF entered_by_jump /\ offset = pl_loop_header
                    /\ predecessors_[offset] = MaxPredecessors
            THEN NewMergeState(predecessors_[offset] - 1)
            ELSE NoMergeState]
  /\ decremented_predecessor_offsets_ = <<>>
  /\ in_peeled_iteration_ = FALSE
  /\ allow_loop_peeling_ = TRUE
  /\ current_block_ = TRUE
  /\ iterator_offset = pl_loop_header
  /\ pl_pc = "start"
  /\ pl_pre = predecessors_
  /\ pl_recorded = <<>>
  /\ pl_block_at_end = TRUE
  /\ pl_dead = NoDeadMerge

ParkedPL ==
  /\ pl_loop_header = 0
  /\ pl_jump_loop = 1
  /\ predecessors_ = <<>>
  /\ merge_states_ = <<>>
  /\ decremented_predecessor_offsets_ = <<>>
  /\ in_peeled_iteration_ = FALSE
  /\ allow_loop_peeling_ = TRUE
  /\ current_block_ = TRUE
  /\ iterator_offset = 0
  /\ pl_pc = "start"
  /\ pl_pre = <<>>
  /\ pl_recorded = <<>>
  /\ pl_block_at_end = TRUE
  /\ pl_dead = <<>>

\* VisitSingleBytecode reaching `offset`: a merge state there starts a new
\* block, after merging the block that falls through into it.
EnterOffset(st, offset, block) ==
  IF st.merge_states[offset].exists
  THEN [st |-> IF block THEN [st EXCEPT !.merge_states[offset] = Merge(@)]
               ELSE st,
        block |-> TRUE]
  ELSE [st |-> st, block |-> block]

PLStep(st, block, offset) ==
  /\ predecessors_' = st.predecessors
  /\ merge_states_' = st.merge_states
  /\ decremented_predecessor_offsets_' = st.decremented
  /\ pl_dead' = st.dead
  /\ current_block_' = block
  /\ iterator_offset' = offset
  /\ UNCHANGED <<in_peeled_iteration_, allow_loop_peeling_, pl_loop_header,
                 pl_jump_loop, pl_pc, pl_pre, pl_recorded, pl_block_at_end,
                 OutsidePL>>

InPeeledBody == pl_pc = "peeling" /\ iterator_offset < pl_jump_loop

\* VisitSingleBytecode, before the loop header is reached, of a conditional
\* jump over the loop that BuildBranchIfRootConstant knows is not taken: a
\* dead merge into a target beyond the JumpLoop, outside any peeled iteration.
VisitFoldedBranchBeforeLoop(jump_offset) ==
  /\ pl_pc = "start"
  /\ jump_offset > pl_jump_loop
  /\ predecessors_[jump_offset] > 1
  /\ PLStep(MergeDeadIntoFrameState(PLState, jump_offset,
                                    in_peeled_iteration_),
            current_block_, iterator_offset)

\* PeelLoop, up to the loop over the bytecodes of the peeled iteration.
PeelLoopBegin ==
  /\ pl_pc = "start"
  /\ allow_loop_peeling_
  /\ ~in_peeled_iteration_
  /\ iterator_offset = pl_loop_header
  /\ in_peeled_iteration_' = TRUE
  /\ allow_loop_peeling_' = FALSE
  /\ pl_pc' = "peeling"
  /\ pl_pre' = predecessors_
  /\ UNCHANGED <<predecessors_, merge_states_,
                 decremented_predecessor_offsets_, current_block_,
                 iterator_offset, pl_loop_header, pl_jump_loop, pl_recorded,
                 pl_block_at_end, pl_dead, OutsidePL>>

\* PeelLoop: VisitSingleBytecode of a bytecode that is no jump, and Advance.
\* In dead code the bytecode merges dead into its fallthrough.
PeelVisitBytecode ==
  /\ InPeeledBody
  /\ LET e == EnterOffset(PLState, iterator_offset, current_block_)
     IN IF e.block
        THEN PLStep(e.st, TRUE, iterator_offset + 1)
        ELSE /\ e.st.predecessors[iterator_offset + 1] > 0
             /\ PLStep(MergeDeadIntoFrameState(e.st, iterator_offset + 1,
                                               in_peeled_iteration_),
                       FALSE, iterator_offset + 1)

\* PeelLoop: VisitSingleBytecode of a conditional jump whose outcome
\* BuildBranchIfRootConstant knows, and Advance.
PeelVisitFoldedBranch(jump_offset, is_jump_taken) ==
  /\ InPeeledBody
  /\ jump_offset > iterator_offset
  /\ LET e == EnterOffset(PLState, iterator_offset, current_block_)
         fallthrough_offset == iterator_offset + 1
     IN /\ e.block
        /\ IF is_jump_taken
           THEN /\ e.st.predecessors[fallthrough_offset] > 0
                /\ PLStep(MergeIntoFrameState(
                            MergeDeadIntoFrameState(e.st, fallthrough_offset,
                                                    in_peeled_iteration_),
                            jump_offset, FALSE),
                          FALSE, iterator_offset + 1)
           ELSE /\ e.st.predecessors[jump_offset] > 0
                /\ PLStep(MergeDeadIntoFrameState(e.st, jump_offset,
                                                  in_peeled_iteration_),
                          TRUE, iterator_offset + 1)

\* PeelLoop: VisitSingleBytecode of a forward jump in dead code
\* (MarkBytecodeDead), and Advance.
PeelVisitDeadJump(jump_offset, conditional) ==
  /\ InPeeledBody
  /\ jump_offset > iterator_offset
  /\ LET e == EnterOffset(PLState, iterator_offset, current_block_)
         st1 == MergeDeadIntoFrameState(e.st, jump_offset,
                                        in_peeled_iteration_)
     IN /\ ~e.block
        /\ e.st.predecessors[jump_offset] > 0
        /\ IF conditional
           THEN /\ st1.predecessors[iterator_offset + 1] > 0
                /\ PLStep(MergeDeadIntoFrameState(st1, iterator_offset + 1,
                                                  in_peeled_iteration_),
                          FALSE, iterator_offset + 1)
           ELSE PLStep(st1, FALSE, iterator_offset + 1)

\* PeelLoop from the VisitSingleBytecode of the JumpLoop to its end.  In
\* dead code the JumpLoop may merge dead into the loop header.
PeelLoopFinish(merge_dead_loop) ==
  /\ pl_pc = "peeling"
  /\ iterator_offset = pl_jump_loop
  /\ LET e == EnterOffset(PLState, iterator_offset, current_block_)
         visited == IF ~e.block /\ merge_dead_loop
                    THEN MergeDeadLoopIntoFrameState(e.st, pl_loop_header,
                                                     in_peeled_iteration_)
                    ELSE e.st
         restored == RestoredPredecessors(visited.predecessors,
                                          visited.decremented,
                                          iterator_offset)
         reset == ResetMergeStates(visited.merge_states, pl_loop_header,
                                   iterator_offset)
     IN /\ (e.block => ~merge_dead_loop)
        /\ (merge_dead_loop => e.st.predecessors[pl_loop_header] > 0)
        /\ pl_recorded' = visited.decremented
        /\ pl_block_at_end' = e.block
        /\ pl_dead' = visited.dead
        /\ decremented_predecessor_offsets_' = <<>>
        /\ IF e.block
           THEN /\ merge_states_' =
                     MergeIntoFrameState(
                       [predecessors |-> restored,
                        merge_states |->
                          [reset EXCEPT ![pl_loop_header] =
                                          NewForLoop(2, TRUE)],
                        decremented |-> <<>>],
                       pl_loop_header, TRUE).merge_states
                /\ predecessors_' = restored
           ELSE /\ merge_states_' =
                     [reset EXCEPT ![pl_loop_header] = NoMergeState]
                /\ predecessors_' = [restored EXCEPT ![pl_loop_header] = 0]
        /\ current_block_' = FALSE
        /\ in_peeled_iteration_' = FALSE
        /\ iterator_offset' = pl_loop_header
        /\ pl_pc' = "done"
  /\ UNCHANGED <<allow_loop_peeling_, pl_loop_header, pl_jump_loop, pl_pre,
                 OutsidePL>>

(***************************************************************************)
(* Bytecode visitors and branches: VisitLdaSmi, VisitStar, VisitLdar,      *)
(* VisitMov, VisitLogicalNot, VisitTestUndefined, TryFindNextBranch,       *)
(* BuildFusedBranch, BuildBranchIfRootConstant                             *)
(***************************************************************************)
\* A program is MaxPrefix bytecodes without control flow and a conditional
\* jump; every bytecode is one offset long.  The builder is not inlined.
MaxPrefix == 3
MaxBCNodes == 2 * MaxPrefix + 6
BCNodeIds == 1 .. MaxBCNodes
BCFallthroughOffset == MaxPrefix + 1
BCJumpTarget == MaxPrefix + 2
BCOffsets == 0 .. BCJumpTarget

\* interpreter::Register::virtual_accumulator()
kAccumulator == -1
BCRegisters == {0, 1}

Bytecode(op, a, b) == [op |-> op, a |-> a, b |-> b]

BCStraight ==
  {Bytecode("LdaSmi", 5, 0), Bytecode("LdaUndefined", 0, 0),
   Bytecode("LdaTrue", 0, 0), Bytecode("Star", 0, 0), Bytecode("Ldar", 0, 0),
   Bytecode("Mov", 0, 1), Bytecode("LogicalNot", 0, 0),
   Bytecode("TestUndefined", 0, 0)}

BCJumps ==
  {Bytecode("JumpIfTrue", BCJumpTarget, 0),
   Bytecode("JumpIfFalse", BCJumpTarget, 0),
   Bytecode("JumpIfUndefined", BCJumpTarget, 0)}

BCPrograms ==
  {prefix \o <<jump>> : prefix \in [1 .. MaxPrefix -> BCStraight],
                        jump \in BCJumps}

\* The builder's fields, as one value the visitors transform.
BCBuilder ==
  [nodes |-> bc_nodes, info |-> bc_info,
   frame |-> current_interpreter_frame_,
   predecessors |-> predecessors_, merge_states |-> merge_states_,
   decremented |-> decremented_predecessor_offsets_, dead |-> pl_dead,
   control |-> bc_control, accumulators |-> bc_branch_accumulators,
   block |-> current_block_, offset |-> iterator_offset,
   fused |-> bc_fused]

\* What the history keeps of a call of BuildFusedBranch: its init_flip, the
\* offset of the test and the offset of the jump it ended on.
NotFused == [called |-> FALSE, init_flip |-> FALSE, test |-> 0, jump |-> 0]
Fused(init_flip, test, jump) ==
  [called |-> TRUE, init_flip |-> init_flip, test |-> test, jump |-> jump]

CurrentBytecode == bc_program[iterator_offset + 1]

IsConstantNode(op) ==
  op \in {"Constant", "Float64Constant", "Int32Constant", "RootConstant",
          "SmiConstant"}

\* FromConstantToBool / Name::ToBoolean of a constant node
FromConstantToBool(node) ==
  IF node.op = "RootConstant" THEN node.k = kTrueValue
  ELSE IF node.op \in {"SmiConstant", "Int32Constant"} THEN node.k # 0
  ELSE IF node.op = "Float64Constant"
       THEN node.frac # kIsNaN /\ ~(node.k = 0 /\ node.frac = kIntegral)
  ELSE TRUE

IsUndefinedValue(node) ==
  node.op = "RootConstant" /\ node.k = kUndefinedValue

GetSmiConstant(b, constant) ==
  GetConstantNode(b, "SmiConstant", "Tagged", Double(constant, kIntegral))

GetRootConstant(b, index) ==
  GetConstantNode(b, "RootConstant", "Tagged", Double(index, kIntegral))

GetBooleanConstant(b, value) ==
  GetRootConstant(b, IF value THEN kTrueValue ELSE kFalseValue)

SetAccumulator(r) == [r.st EXCEPT !.frame[kAccumulator] = r.res]

GetRawAccumulator(b) == b.frame[kAccumulator]

GetAccumulatorTagged(b) == GetTaggedValue(b, GetRawAccumulator(b))

\* MoveNodeBetweenRegisters(src, dst)
MoveNodeBetweenRegisters(b, src, dst) ==
  [b EXCEPT !.frame[dst] = b.frame[src]]

\* MaglevGraphBuilder::CheckType(node, type)
CheckType(b, v, type) ==
  \/ NodeTypeIs(StaticTypeForNode(b.nodes[v]), type)
  \/ b.info[v].present /\ NodeTypeIs(b.info[v].type, type)

ControlNode(op, input, root_index, true_target, false_target, fused) ==
  [op |-> op, input |-> input, root_index |-> root_index,
   true_target |-> true_target, false_target |-> false_target,
   fused |-> fused]

\* FinishBlock<ControlNodeT>(...): the current block ends in the control node.
FinishBlock(b, control) ==
  [b EXCEPT !.control = Append(@, control), !.block = FALSE]

\* SetAccumulatorInBranch, for the branch that goes to `successor`.
SetAccumulatorInBranch(r, successor) ==
  [r.st EXCEPT !.frame[kAccumulator] = r.res,
               !.accumulators[successor] = r.res]

\* StartFallthroughBlock(next_block_offset, predecessor)
StartFallthroughBlock(b, next_block_offset) ==
  IF b.predecessors[next_block_offset] = 1
  THEN [b EXCEPT !.block = TRUE]
  ELSE MergeIntoFrameState(b, next_block_offset, FALSE)

\* The known jump that is taken without the dead merge into the fallthrough.
BuildKnownBranchLeavingFallthrough(b, is_jump_taken, jump_offset, fallthrough_offset) ==
  IF is_jump_taken
  THEN MergeIntoFrameState(
         FinishBlock(b, ControlNode("Jump", nullptr, 0, jump_offset,
                                    jump_offset, FALSE)),
         jump_offset, FALSE)
  ELSE MergeDeadIntoFrameState(b, jump_offset, in_peeled_iteration_)

\* The jump whose outcome is known: a Jump and a dead fallthrough when it
\* is taken, a dead jump target when it is not.
BuildKnownBranch(b, is_jump_taken, jump_offset, fallthrough_offset) ==
  IF is_jump_taken
  THEN MergeIntoFrameState(
         MergeDeadIntoFrameState(
           FinishBlock(b, ControlNode("Jump", nullptr, 0, jump_offset,
                                      jump_offset, FALSE)),
           fallthrough_offset, in_peeled_iteration_),
         jump_offset, FALSE)
  ELSE MergeDeadIntoFrameState(b, jump_offset, in_peeled_iteration_)

NegateJumpType(jump_type) ==
  IF jump_type = "kJumpIfTrue" THEN "kJumpIfFalse" ELSE "kJumpIfTrue"

\* BuildBranchIfRootConstant: "Bypassing logical not(s) on the input and
\* swapping true/false destinations."
RECURSIVE BypassLogicalNots(_, _)
BypassLogicalNots(b, t) ==
  IF b.nodes[t.node].op = "LogicalNot"
  THEN BypassLogicalNots(b, [node |-> b.nodes[t.node].input,
                             true_target |-> t.false_target,
                             false_target |-> t.true_target,
                             jump_type |-> NegateJumpType(t.jump_type)])
  ELSE t

\* BuildBranchIfRootConstant once the branch is not known: the branch node,
\* the accumulator of each side, the merge into the jump target and the
\* fallthrough block.
BuildBranchIfRootConstantNode(b, original, t, root_index, mode) ==
  LET original_node == original.node
      original_jump_type == original.jump_type
      fallthrough_offset == b.offset + 1
      jump_offset == bc_program[b.offset + 1].a
      finished == FinishBlock(b, ControlNode("BranchIfRootConstant", t.node,
                                             root_index, t.true_target,
                                             t.false_target, FALSE))
      swap_accumulator == original_node = GetRawAccumulator(b)
      in_jump ==
        IF ~swap_accumulator THEN finished
        ELSE IF mode = "kAlwaysBoolean"
        THEN SetAccumulatorInBranch(
               GetBooleanConstant(finished,
                                  original_jump_type = "kJumpIfTrue"),
               jump_offset)
        ELSE IF original_jump_type = "kJumpIfTrue"
        THEN SetAccumulatorInBranch(GetRootConstant(finished, root_index),
                                    jump_offset)
        ELSE SetAccumulatorInBranch(Ret(finished, t.node), jump_offset)
      merged == MergeIntoFrameState(in_jump, jump_offset, FALSE)
      in_fallthrough ==
        IF ~swap_accumulator THEN merged
        ELSE IF mode = "kAlwaysBoolean"
        THEN SetAccumulatorInBranch(
               GetBooleanConstant(merged,
                                  original_jump_type = "kJumpIfFalse"),
               fallthrough_offset)
        ELSE IF original_jump_type = "kJumpIfFalse"
        THEN SetAccumulatorInBranch(GetRootConstant(merged, root_index),
                                    fallthrough_offset)
        ELSE SetAccumulatorInBranch(Ret(merged, t.node), fallthrough_offset)
  IN StartFallthroughBlock(in_fallthrough, fallthrough_offset)

\* BuildBranchIfRootConstant that folds every constant input as its ToBoolean
\* value, the way BuildBranchIfToBooleanTrue does.
BuildBranchIfRootConstantFolding(b, node, jump_type, root_index, mode) ==
  LET fallthrough_offset == b.offset + 1
      jump_offset == bc_program[b.offset + 1].a
      targets == IF jump_type = "kJumpIfTrue"
                 THEN [node |-> node, true_target |-> jump_offset,
                       false_target |-> fallthrough_offset,
                       jump_type |-> jump_type]
                 ELSE [node |-> node, true_target |-> fallthrough_offset,
                       false_target |-> jump_offset, jump_type |-> jump_type]
      t == BypassLogicalNots(b, targets)
  IN IF IsConstantNode(b.nodes[t.node].op)
     THEN BuildKnownBranch(
            b, FromConstantToBool(b.nodes[t.node])
                 = (t.jump_type = "kJumpIfTrue"),
            jump_offset, fallthrough_offset)
     ELSE BuildBranchIfRootConstantNode(b, targets, t, root_index, mode)

\* MaglevGraphBuilder::BuildBranchIfRootConstant(node, jump_type, root_index,
\* mode)
BuildBranchIfRootConstant(b, node, jump_type, root_index, mode) ==
  LET fallthrough_offset == b.offset + 1
      jump_offset == bc_program[b.offset + 1].a
      targets == IF jump_type = "kJumpIfTrue"
                 THEN [node |-> node, true_target |-> jump_offset,
                       false_target |-> fallthrough_offset,
                       jump_type |-> jump_type]
                 ELSE [node |-> node, true_target |-> fallthrough_offset,
                       false_target |-> jump_offset, jump_type |-> jump_type]
      t == BypassLogicalNots(b, targets)
  IN IF root_index \notin {kTrueValue, kFalseValue}
        /\ CheckType(b, node, kBoolean)
     THEN BuildKnownBranch(b, jump_type = "kJumpIfFalse", jump_offset,
                           fallthrough_offset)
     ELSE IF b.nodes[t.node].op = "RootConstant"
     THEN BuildKnownBranch(
            b, (b.nodes[t.node].k = root_index)
                 = (t.jump_type = "kJumpIfTrue"),
            jump_offset, fallthrough_offset)
     ELSE BuildBranchIfRootConstantNode(b, targets, t, root_index, mode)

\* MaglevGraphBuilder::BuildSpecializedBranchIfCompareNode(node, true_target,
\* false_target): the block ends in the branch the representation and the
\* known type of the node allow.
BuildSpecializedBranchIfCompareNode(b, node, true_target, false_target) ==
  LET known == GetOrCreateInfoFor(b, node)
      as_int32 == known.info[node].int32
      as_float64 == known.info[node].float64
      tagged == GetTaggedValue(known, node)
      zero == GetSmiConstant(tagged.st, 0)
  IN IF b.nodes[node].repr = "Int32"
     THEN FinishBlock(b, ControlNode("BranchIfInt32ToBooleanTrue", node, 0,
                                     true_target, false_target, FALSE))
     ELSE IF b.nodes[node].repr \in {"Float64", "HoleyFloat64"}
     THEN FinishBlock(b, ControlNode("BranchIfFloat64ToBooleanTrue", node, 0,
                                     true_target, false_target, FALSE))
     ELSE IF as_int32 # nullptr
     THEN FinishBlock(known,
                      ControlNode("BranchIfInt32ToBooleanTrue", as_int32,
                                     0, true_target, false_target, FALSE))
     ELSE IF as_float64 # nullptr
     THEN FinishBlock(known,
                      ControlNode("BranchIfFloat64ToBooleanTrue", as_float64,
                                  0, true_target, false_target, FALSE))
     ELSE IF CheckType(tagged.st, tagged.res, kBoolean)
     THEN FinishBlock(tagged.st,
                      ControlNode("BranchIfRootConstant", tagged.res,
                                  kTrueValue, true_target, false_target,
                                  FALSE))
     ELSE IF CheckType(tagged.st, tagged.res, kSmi)
     THEN FinishBlock(zero.st,
                      ControlNode("BranchIfReferenceCompare", tagged.res,
                                  zero.res, false_target, true_target, FALSE))
     ELSE IF CheckType(tagged.st, tagged.res, kString)
     THEN FinishBlock(tagged.st,
                      ControlNode("BranchIfRootConstant", tagged.res,
                                  kempty_string, false_target, true_target,
                                  FALSE))
     ELSE FinishBlock(tagged.st,
                      ControlNode("BranchIfToBooleanTrue", tagged.res, 0,
                                  true_target, false_target, FALSE))

\* MaglevGraphBuilder::BuildBranchIfToBooleanTrue(node, jump_type)
BuildBranchIfToBooleanTrue(b, node, jump_type) ==
  LET fallthrough_offset == b.offset + 1
      jump_offset == bc_program[b.offset + 1].a
      targets == IF jump_type = "kJumpIfTrue"
                 THEN [node |-> node, true_target |-> jump_offset,
                       false_target |-> fallthrough_offset,
                       jump_type |-> jump_type]
                 ELSE [node |-> node, true_target |-> fallthrough_offset,
                       false_target |-> jump_offset, jump_type |-> jump_type]
      t == BypassLogicalNots(b, targets)
      block == BuildSpecializedBranchIfCompareNode(b, t.node, t.true_target,
                                                   t.false_target)
  IN IF IsConstantNode(b.nodes[t.node].op)
     THEN BuildKnownBranch(
            b, FromConstantToBool(b.nodes[t.node])
                 = (t.jump_type = "kJumpIfTrue"),
            jump_offset, fallthrough_offset)
     ELSE IF CheckType(b, t.node, kJSReceiver)
     THEN BuildKnownBranch(b, t.jump_type = "kJumpIfTrue", jump_offset,
                           fallthrough_offset)
     ELSE StartFallthroughBlock(
            MergeIntoFrameState(block, jump_offset, FALSE),
            fallthrough_offset)

kNoBranch == -1

\* IsOffsetAMergePoint(offset)
IsOffsetAMergePoint(b, offset) == b.merge_states[offset].exists

\* The answer of TryFindNextBranch: a branch offset and *inline_level, or
\* nothing.
NoBranch == [offset |-> kNoBranch, inline_level |-> 0]

\* The conditional jumps a test can be fused with.
FusableJumps ==
  {"JumpIfFalse", "JumpIfFalseConstant", "JumpIfToBooleanFalse",
   "JumpIfToBooleanFalseConstant", "JumpIfTrue", "JumpIfTrueConstant",
   "JumpIfToBooleanTrue", "JumpIfToBooleanTrueConstant"}

\* SHORT_STAR_BYTECODE_LIST, and Register::FromShortStar(bytecode)
ShortStars == {"Star0", "Star1"}
StoreRegister(bytecode) ==
  IF bytecode.op = "Star0" THEN 0
  ELSE IF bytecode.op = "Star1" THEN 1 ELSE bytecode.a

\* A store that is observable only when the register is live.
StoreToLiveRegister(unit, store_reg) == store_reg \in unit.live

\* store_reg.is_parameter() ||
\* GetOutLivenessFor(it.current_offset())->RegisterIsLive(store_reg.index())
StoreIsObservable(unit, store_reg) ==
  store_reg \in unit.parameters \/ store_reg \in unit.live

\* inline_exit_offset(): the offset after the last bytecode of the inlined
\* function, where its returns merge.
inline_exit_offset(unit) == Len(unit.program)

\* A Return with other exits only when bytecodes follow it.
ReturnIsNotLast(unit, offset) == offset + 1 < Len(unit.program)

\* it.next_bytecode() != interpreter::Bytecode::kIllegal ||
\* IsOffsetAMergePoint(inline_exit_offset())
ReturnHasOtherExits(unit, offset) ==
  \/ offset + 1 < Len(unit.program)
  \/ inline_exit_offset(unit) \in unit.merge_points

\* MaglevGraphBuilder::TryFindNextBranch(inline_level), the loop from the
\* bytecode at `offset` of the builder frames[level + 1] on; frames[level + 2]
\* is its parent_, of which it is an inlined callee.
RECURSIVE FindNextBranchIn(_, _, _)
FindNextBranchIn(frames, level, offset) ==
  LET unit == frames[level + 1]
      is_inline == level + 1 < Len(frames)
  IN IF offset >= Len(unit.program) THEN NoBranch
     ELSE IF offset \in unit.merge_points THEN NoBranch
     ELSE LET bytecode == unit.program[offset + 1]
          IN IF bytecode.op \in {"Mov", "ToBoolean", "LogicalNot",
                                 "ToBooleanLogicalNot"}
             THEN FindNextBranchIn(frames, level, offset + 1)
             ELSE IF bytecode.op \in {"Star"} \cup ShortStars
             THEN IF StoreIsObservable(unit, StoreRegister(bytecode))
                  THEN NoBranch
                  ELSE FindNextBranchIn(frames, level, offset + 1)
             ELSE IF bytecode.op = "Return"
             THEN IF ~is_inline THEN NoBranch
                  ELSE IF ~unit.new_target_is_root THEN NoBranch
                  ELSE IF ReturnHasOtherExits(unit, offset)
                  THEN NoBranch
                  ELSE FindNextBranchIn(frames, level + 1,
                                        frames[level + 2].offset + 1)
             ELSE IF bytecode.op \in FusableJumps
             THEN [offset |-> offset, inline_level |-> level]
             ELSE NoBranch

\* The builder of the visitors below as a frame: it is not inlined and its
\* bytecode stores to no parameter register.
BCUnit(b) ==
  [program |-> bc_program, offset |-> b.offset,
   merge_points |-> {o \in BCOffsets : IsOffsetAMergePoint(b, o)},
   live |-> bc_live, parameters |-> {}, new_target_is_root |-> TRUE]

\* MaglevGraphBuilder::TryFindNextBranch, from the bytecode at `offset` on.
FindNextBranchFrom(b, offset) ==
  FindNextBranchIn(<<BCUnit(b)>>, 0, offset).offset

TryFindNextBranch(b) == FindNextBranchFrom(b, b.offset + 1)

\* A replay that takes ToBooleanLogicalNot for a ToBoolean.
RECURSIVE ReplayWithoutToBooleanLogicalNot(_, _)
ReplayWithoutToBooleanLogicalNot(b, flip) ==
  LET bytecode == bc_program[b.offset + 1]
      advanced == [b EXCEPT !.offset = @ + 1]
  IN IF bytecode.op = "Mov"
     THEN ReplayWithoutToBooleanLogicalNot(
            [advanced EXCEPT !.frame[bytecode.b] = b.frame[bytecode.a]], flip)
     ELSE IF bytecode.op \in {"ToBoolean", "ToBooleanLogicalNot"}
     THEN ReplayWithoutToBooleanLogicalNot(advanced, flip)
     ELSE IF bytecode.op = "LogicalNot"
     THEN ReplayWithoutToBooleanLogicalNot(advanced, ~flip)
     ELSE IF bytecode.op \in {"Star"} \cup ShortStars
     THEN ReplayWithoutToBooleanLogicalNot(advanced, flip)
     ELSE [b |-> b, flip |-> flip]

\* BuildFusedBranch: "Evaluate Movs and LogicalNots between test and jump."
RECURSIVE ReplayUpToJump(_, _)
ReplayUpToJump(b, flip) ==
  LET bytecode == bc_program[b.offset + 1]
      advanced == [b EXCEPT !.offset = @ + 1]
  IN IF bytecode.op = "Mov"
     THEN ReplayUpToJump(
            [advanced EXCEPT !.frame[bytecode.b] = b.frame[bytecode.a]], flip)
     ELSE IF bytecode.op = "ToBoolean" THEN ReplayUpToJump(advanced, flip)
     ELSE IF bytecode.op \in {"LogicalNot", "ToBooleanLogicalNot"}
     THEN ReplayUpToJump(advanced, ~flip)
     ELSE IF bytecode.op \in {"Star"} \cup ShortStars
     THEN ReplayUpToJump(advanced, flip)
     ELSE [b |-> b, flip |-> flip]

\* MaglevGraphBuilder::BuildFusedBranch<BranchControlNodeT>(branch_offset,
\* inline_level, init_flip, control_inputs, args...)
BuildFusedBranch(b, op, init_flip, input, root_index) ==
  LET replayed == ReplayUpToJump([b EXCEPT !.offset = @ + 1], init_flip)
      at_jump == replayed.b
      flip == replayed.flip
      bytecode == bc_program[at_jump.offset + 1]
      jump_type ==
        IF bytecode.op \in {"JumpIfFalse", "JumpIfFalseConstant",
                            "JumpIfToBooleanFalse",
                            "JumpIfToBooleanFalseConstant"}
        THEN (IF flip THEN "kJumpIfTrue" ELSE "kJumpIfFalse")
        ELSE (IF flip THEN "kJumpIfFalse" ELSE "kJumpIfTrue")
      next_offset == at_jump.offset + 1
      true_offset == IF jump_type = "kJumpIfFalse" THEN next_offset
                     ELSE bytecode.a
      false_offset == IF jump_type = "kJumpIfFalse" THEN bytecode.a
                      ELSE next_offset
      finished == FinishBlock(at_jump, ControlNode(op, input, root_index,
                                                   true_offset, false_offset,
                                                   TRUE))
      in_jump == SetAccumulatorInBranch(
                   GetBooleanConstant(finished,
                                      (jump_type = "kJumpIfTrue") # flip),
                   bytecode.a)
      merged == MergeIntoFrameState(in_jump, bytecode.a, FALSE)
      in_fallthrough == SetAccumulatorInBranch(
                          GetBooleanConstant(
                            merged, (jump_type = "kJumpIfFalse") # flip),
                          next_offset)
  IN [StartFallthroughBlock(in_fallthrough, next_offset)
        EXCEPT !.fused = Fused(init_flip, b.offset, at_jump.offset)]

\* MaglevGraphBuilder::VisitTestUndefined, with TryBuildBranchFor
TestUndefined(b) ==
  LET value == GetAccumulatorTagged(b)
      undefined_constant == GetRootConstant(value.st, kUndefinedValue)
  IN IF IsConstantNode(value.st.nodes[value.res].op)
     THEN SetAccumulator(
            GetBooleanConstant(value.st,
                               IsUndefinedValue(value.st.nodes[value.res])))
     ELSE IF TryFindNextBranch(value.st) # kNoBranch
     THEN BuildFusedBranch(value.st, "BranchIfRootConstant", FALSE, value.res,
                           kUndefinedValue)
     ELSE SetAccumulator(AddNewNode(undefined_constant.st, "TaggedEqual",
                                    value.res, "Tagged"))

\* MaglevGraphBuilder::TryBuildBranchFor<BranchControlNodeT, init_flip>(
\* control_inputs, args...); `arg` is the root index of a
\* BranchIfRootConstant and the second input of a BranchIfReferenceCompare.
TryBuildBranchFor(b, op, init_flip, input, arg) ==
  IF TryFindNextBranch(b) = kNoBranch THEN [fused |-> FALSE, st |-> b]
  ELSE [fused |-> TRUE, st |-> BuildFusedBranch(b, op, init_flip, input, arg)]

\* MaglevGraphBuilder::BuildToBoolean<flip>(value)
BuildToBoolean(b, value, flip) ==
  LET falsy == IF CheckType(b, value, kString)
               THEN GetRootConstant(b, kempty_string)
               ELSE GetSmiConstant(b, 0)
      compare == TryBuildBranchFor(falsy.st, "BranchIfReferenceCompare",
                                   ~flip, value, falsy.res)
      boolean == TryBuildBranchFor(b, "BranchIfRootConstant", FALSE, value,
                                   IF flip THEN kFalseValue ELSE kTrueValue)
      generic == TryBuildBranchFor(b, "BranchIfToBooleanTrue", flip, value, 0)
  IN IF IsConstantNode(b.nodes[value].op)
     THEN SetAccumulator(
            GetBooleanConstant(b, FromConstantToBool(b.nodes[value]) # flip))
     ELSE IF CheckType(b, value, kJSReceiver)
     THEN SetAccumulator(GetBooleanConstant(b, ~flip))
     ELSE IF CheckType(b, value, kString) \/ CheckType(b, value, kSmi)
     THEN IF compare.fused THEN compare.st
          ELSE SetAccumulator(
                 AddNewNode(falsy.st,
                            IF flip THEN "TaggedEqual" ELSE "TaggedNotEqual",
                            value, "Tagged"))
     ELSE IF CheckType(b, value, kBoolean)
     THEN IF boolean.fused THEN boolean.st
          ELSE IF flip
          THEN SetAccumulator(AddNewNode(b, "LogicalNot", value, "Tagged"))
          ELSE SetAccumulator(Ret(b, value))
     ELSE IF generic.fused THEN generic.st
          ELSE SetAccumulator(
                 AddNewNode(b, IF flip THEN "ToBooleanLogicalNot"
                               ELSE "ToBoolean", value, "Tagged"))

\* MaglevGraphBuilder::VisitLogicalNot
LogicalNot(b) ==
  LET value == GetAccumulatorTagged(b)
  IN IF IsConstantNode(value.st.nodes[value.res].op)
     THEN SetAccumulator(
            GetBooleanConstant(
              value.st, ~FromConstantToBool(value.st.nodes[value.res])))
     ELSE SetAccumulator(AddNewNode(value.st, "LogicalNot", value.res,
                                    "Tagged"))

InitBC ==
  /\ bc_program \in BCPrograms
  /\ bc_live \in {{}, {0}}
  /\ bc_nodes = <<Node("InitialValue", nullptr, "Tagged", 0, FALSE),
                  DoubleNode("RootConstant", "Tagged",
                             Double(kUndefinedValue, kIntegral))>>
  /\ \E type \in {kUnknown, kBoolean} :
       bc_info = [n \in BCNodeIds |->
                    IF n = 1 /\ type # kUnknown
                    THEN [NoInfo EXCEPT !.present = TRUE, !.type = type]
                    ELSE NoInfo]
  /\ current_interpreter_frame_ =
       [r \in BCRegisters \cup {kAccumulator} |-> IF r = 0 THEN 1 ELSE 2]
  /\ bc_control = <<>>
  /\ bc_branch_accumulators = [offset \in BCOffsets |-> nullptr]
  /\ bc_pc = "building"
  /\ bc_fused = NotFused
  /\ \E count \in 1 .. MaxPredecessors :
       predecessors_ = [offset \in BCOffsets |->
                          IF offset = BCJumpTarget THEN count ELSE 1]
  /\ merge_states_ = [offset \in BCOffsets |-> NoMergeState]
  /\ decremented_predecessor_offsets_ = <<>>
  /\ in_peeled_iteration_ = FALSE
  /\ allow_loop_peeling_ = FALSE
  /\ current_block_ = TRUE
  /\ iterator_offset = 0
  /\ pl_loop_header = 0
  /\ pl_jump_loop = 0
  /\ pl_pc = "none"
  /\ pl_pre = predecessors_
  /\ pl_recorded = <<>>
  /\ pl_block_at_end = TRUE
  /\ pl_dead = NoDeadMerge

ParkedBC ==
  /\ bc_program = <<>>
  /\ bc_live = {}
  /\ bc_nodes = <<>>
  /\ bc_info = <<>>
  /\ current_interpreter_frame_ = <<>>
  /\ bc_control = <<>>
  /\ bc_branch_accumulators = <<>>
  /\ bc_pc = "done"
  /\ bc_fused = <<>>

\* The builder after VisitSingleBytecode left it as `b`, and
\* iterator_.Advance().
BCVisited(b) ==
  /\ bc_nodes' = b.nodes
  /\ bc_info' = b.info
  /\ current_interpreter_frame_' = b.frame
  /\ predecessors_' = b.predecessors
  /\ merge_states_' = b.merge_states
  /\ decremented_predecessor_offsets_' = b.decremented
  /\ pl_dead' = b.dead
  /\ bc_control' = b.control
  /\ bc_branch_accumulators' = b.accumulators
  /\ bc_fused' = b.fused
  /\ current_block_' = b.block
  /\ iterator_offset' = b.offset + 1
  /\ bc_pc' = IF b.offset + 1 >= Len(bc_program) THEN "done" ELSE "building"
  /\ UNCHANGED <<bc_program, bc_live, in_peeled_iteration_,
                 allow_loop_peeling_, pl_loop_header, pl_jump_loop, pl_pc,
                 pl_pre, pl_recorded, pl_block_at_end, OutsideBC>>

AtBytecode(op) ==
  /\ bc_pc = "building"
  /\ current_block_
  /\ CurrentBytecode.op = op

VisitLdaSmi ==
  /\ AtBytecode("LdaSmi")
  /\ BCVisited(SetAccumulator(GetSmiConstant(BCBuilder, CurrentBytecode.a)))

VisitLdaUndefined ==
  /\ AtBytecode("LdaUndefined")
  /\ BCVisited(SetAccumulator(GetRootConstant(BCBuilder, kUndefinedValue)))

VisitLdaTrue ==
  /\ AtBytecode("LdaTrue")
  /\ BCVisited(SetAccumulator(GetRootConstant(BCBuilder, kTrueValue)))

VisitStar ==
  /\ AtBytecode("Star")
  /\ BCVisited(MoveNodeBetweenRegisters(BCBuilder, kAccumulator,
                                        CurrentBytecode.a))

VisitLdar ==
  /\ AtBytecode("Ldar")
  /\ BCVisited(MoveNodeBetweenRegisters(BCBuilder, CurrentBytecode.a,
                                        kAccumulator))

VisitMov ==
  /\ AtBytecode("Mov")
  /\ BCVisited(MoveNodeBetweenRegisters(BCBuilder, CurrentBytecode.a,
                                        CurrentBytecode.b))

VisitLogicalNot ==
  /\ AtBytecode("LogicalNot")
  /\ BCVisited(LogicalNot(BCBuilder))

VisitTestUndefined ==
  /\ AtBytecode("TestUndefined")
  /\ BCVisited(TestUndefined(BCBuilder))

\* VisitJumpIfTrue: BuildBranchIfTrue(GetAccumulatorTagged(), kJumpIfTrue)
VisitJumpIfTrue ==
  /\ AtBytecode("JumpIfTrue")
  /\ LET node == GetAccumulatorTagged(BCBuilder)
     IN BCVisited(BuildBranchIfRootConstant(node.st, node.res, "kJumpIfTrue",
                                            kTrueValue, "kAlwaysBoolean"))

\* VisitJumpIfFalse: BuildBranchIfTrue(GetAccumulatorTagged(), kJumpIfFalse)
VisitJumpIfFalse ==
  /\ AtBytecode("JumpIfFalse")
  /\ LET node == GetAccumulatorTagged(BCBuilder)
     IN BCVisited(BuildBranchIfRootConstant(node.st, node.res, "kJumpIfFalse",
                                            kTrueValue, "kAlwaysBoolean"))

\* VisitJumpIfUndefined:
\* BuildBranchIfUndefined(GetAccumulatorTagged(), kJumpIfTrue)
VisitJumpIfUndefined ==
  /\ AtBytecode("JumpIfUndefined")
  /\ LET node == GetAccumulatorTagged(BCBuilder)
     IN BCVisited(BuildBranchIfRootConstant(node.st, node.res, "kJumpIfTrue",
                                            kUndefinedValue, "kDefault"))

\* MaglevGraphBuilder::VisitToBoolean
VisitToBoolean ==
  /\ AtBytecode("ToBoolean")
  /\ LET value == GetAccumulatorTagged(BCBuilder)
     IN BCVisited(BuildToBoolean(value.st, value.res, FALSE))

\* MaglevGraphBuilder::VisitToBooleanLogicalNot
VisitToBooleanLogicalNot ==
  /\ AtBytecode("ToBooleanLogicalNot")
  /\ LET value == GetAccumulatorTagged(BCBuilder)
     IN BCVisited(BuildToBoolean(value.st, value.res, TRUE))

\* A test on the accumulator, the bytecodes a fused branch replays and a
\* conditional jump; register 0 is dead or live after every bytecode.
FUTests ==
  {Bytecode("TestUndefined", 0, 0), Bytecode("ToBoolean", 0, 0),
   Bytecode("ToBooleanLogicalNot", 0, 0)}
FUReplayed ==
  {Bytecode("Mov", 1, 0), Bytecode("ToBoolean", 0, 0),
   Bytecode("LogicalNot", 0, 0), Bytecode("ToBooleanLogicalNot", 0, 0),
   Bytecode("Star", 0, 0), Bytecode("Star0", 0, 0)}
FUJumps ==
  {Bytecode(op, BCJumpTarget, 0) :
     op \in {"JumpIfTrue", "JumpIfFalse", "JumpIfToBooleanTrue",
             "JumpIfToBooleanFalseConstant"}}
FUPrograms ==
  {<<test>> \o replayed \o <<jump>> :
     test \in FUTests, replayed \in [1 .. (MaxPrefix - 1) -> FUReplayed],
     jump \in FUJumps}

\* The builder on the test: the accumulator holds a value that is no
\* constant, of which the builder may know the type.
InitFU ==
  /\ bc_program \in FUPrograms
  /\ bc_live \in {{}, {0}}
  /\ bc_nodes = <<Node("InitialValue", nullptr, "Tagged", 0, FALSE),
                  DoubleNode("RootConstant", "Tagged",
                             Double(kUndefinedValue, kIntegral))>>
  /\ \E type \in {kUnknown, kBoolean, kSmi, kString} :
       bc_info = [n \in BCNodeIds |->
                    IF n = 1 /\ type # kUnknown
                    THEN [NoInfo EXCEPT !.present = TRUE, !.type = type]
                    ELSE NoInfo]
  /\ current_interpreter_frame_ =
       [r \in BCRegisters \cup {kAccumulator} |->
          IF r = kAccumulator THEN 1 ELSE 2]
  /\ bc_control = <<>>
  /\ bc_branch_accumulators = [offset \in BCOffsets |-> nullptr]
  /\ bc_pc = "building"
  /\ bc_fused = NotFused
  /\ \E count \in 1 .. MaxPredecessors :
       predecessors_ = [offset \in BCOffsets |->
                          IF offset = BCJumpTarget THEN count ELSE 1]
  /\ merge_states_ = [offset \in BCOffsets |-> NoMergeState]
  /\ decremented_predecessor_offsets_ = <<>>
  /\ in_peeled_iteration_ = FALSE
  /\ allow_loop_peeling_ = FALSE
  /\ current_block_ = TRUE
  /\ iterator_offset = 0
  /\ pl_loop_header = 0
  /\ pl_jump_loop = 0
  /\ pl_pc = "none"
  /\ pl_pre = predecessors_
  /\ pl_recorded = <<>>
  /\ pl_block_at_end = TRUE
  /\ pl_dead = NoDeadMerge

(***************************************************************************)
(* The search for the branch after a test: TryFindNextBranch on a builder  *)
(* and the builders it is inlined into                                     *)
(***************************************************************************)
(* Page::ShrinkToHighWaterMark                                             *)
(***************************************************************************)
MaxPageWords == 10
MaxFillers == 2

\* The commit page sizes of the platforms, in words: powers of two.
CommitPageSizes == {2, 4}

\* Rounding to the nearest multiple of m rather than down.
RoundToNearest(x, m) == ((x + (m \div 2)) \div m) * m

\* RoundDown(x, m) for a power of two m: x & ~(m - 1)
RoundDown(x, m) == x - (x % m)

RECURSIVE SumOfSizes(_)
SumOfSizes(sizes) ==
  IF sizes = <<>> THEN 0 ELSE Head(sizes) + SumOfSizes(Tail(sizes))

\* The words of consecutive fillers of the given sizes: each filler's first
\* word holds its size, its other words hold 0.
RECURSIVE FillerWords(_)
FillerWords(sizes) ==
  IF sizes = <<>> THEN <<>>
  ELSE <<Head(sizes)>> \o [i \in 1 .. (Head(sizes) - 1) |-> 0]
         \o FillerWords(Tail(sizes))

\* Heap::CreateFillerObjectAt(addr, size, ClearRecordedSlots::kNo), for the
\* address of the first word: nothing for size 0, else a filler header.
CreateFillerObjectAt(words, size) ==
  IF size = 0 THEN words ELSE [words EXCEPT ![1] = size]

\* MemoryAllocator::PartialFreeMemory(chunk, start_free, bytes_to_free,
\* new_area_end): the chunk loses its last bytes_to_free bytes.
PartialFreeMemory(page, bytes_to_free, new_area_end) ==
  [page EXCEPT !.size = @ - bytes_to_free, !.area_end = new_area_end]

NoShrink ==
  [called |-> FALSE, page |-> <<>>, fillers |-> <<>>, unused |-> 0,
   fatal |-> FALSE]

InitSH ==
  /\ sh_commit_page_size \in CommitPageSizes
  /\ \E reserved \in BOOLEAN, area_end \in 2 .. MaxPageWords :
       \E high_water_mark \in 1 .. area_end :
         /\ sh_page = [reserved |-> reserved, address |-> 0,
                       size |-> area_end, area_end |-> area_end,
                       high_water_mark |-> high_water_mark]
         /\ \E count \in 0 .. MaxFillers :
              \E sizes \in [1 .. count -> 1 .. MaxPageWords] :
                /\ SumOfSizes(sizes) = area_end - high_water_mark
                /\ sh_fillers = FillerWords(sizes)
  /\ sh_last = NoShrink

ParkedSH ==
  /\ sh_page = <<>>
  /\ sh_fillers = <<>>
  /\ sh_commit_page_size = 0
  /\ sh_last = <<>>

\* Page::ShrinkToHighWaterMark()
ShrinkToHighWaterMark ==
  LET filler == sh_page.high_water_mark
      area_end == sh_page.area_end
      unused == RoundDown(area_end - filler, sh_commit_page_size)
      kept == area_end - filler - unused
      written == CreateFillerObjectAt(sh_fillers, kept)
      shrunk == PartialFreeMemory(sh_page, unused, area_end - unused)
  IN /\ ~sh_last.fatal
     /\ IF ~sh_page.reserved \/ filler = area_end
        THEN /\ sh_last' = [called |-> TRUE, page |-> sh_page,
                            fillers |-> sh_fillers, unused |-> 0,
                            fatal |-> FALSE]
             /\ UNCHANGED <<sh_page, sh_fillers>>
        ELSE IF sh_fillers[1] = 0
        THEN /\ sh_last' = [called |-> TRUE, page |-> sh_page,
                            fillers |-> sh_fillers, unused |-> 0,
                            fatal |-> TRUE]
             /\ UNCHANGED <<sh_page, sh_fillers>>
        ELSE IF unused > 0
        THEN /\ sh_page' = shrunk
             /\ sh_fillers' = SubSeq(written, 1, kept)
             /\ sh_last' = [called |-> TRUE, page |-> sh_page,
                            fillers |-> sh_fillers, unused |-> unused,
                            fatal |-> /\ filler # shrunk.area_end
                                      /\ filler + written[1]
                                           # shrunk.area_end]
        ELSE /\ sh_last' = [called |-> TRUE, page |-> sh_page,
                            fillers |-> sh_fillers, unused |-> 0,
                            fatal |-> FALSE]
             /\ UNCHANGED <<sh_page, sh_fillers>>
     /\ UNCHANGED <<sh_commit_page_size, OutsideSH>>

(***************************************************************************)
(* RecordKnownProperty and TryReuseKnownPropertyLoad                       *)
(***************************************************************************)
MaxCacheOps == 3

\* Property names, lookup start objects and values (value nodes).
KPNames == {"a", "b"}
KPObjects == {1, 2}
KPValues == {3, 4}
KPAccessModes == {"kLoad", "kStore", "kDefine"}

\* compiler::IsAnyStore(access_mode)
IsAnyStore(access_mode) ==
  access_mode \in {"kStore", "kStoreInLiteral", "kDefine"}

\* A LoadedPropertyMap: per name Null or a map from objects to values,
\* where nullptr stands for no entry.
NoLoadedProperties == [name \in KPNames |-> Null]
NoPropsForName == [object \in KPObjects |-> nullptr]

\* ReduceResult: Fail, or done with a value.
KPFail == [done |-> FALSE, value |-> nullptr]
KPDoneWithValue(value) == [done |-> TRUE, value |-> value]

\* A record that clears the map of the name whatever the access mode.
RecordAlwaysClearing(properties, object, name, value, is_const, access_mode) ==
  [properties EXCEPT ![name] = [NoPropsForName EXCEPT ![object] = value]]

\* RecordKnownProperty, on the map it chose: try_emplace, clear() for a
\* non-constant store, props_for_name[lookup_start_object] = value.
RecordInto(properties, object, name, value, is_const, access_mode) ==
  LET emplaced == IF properties[name] = Null THEN NoPropsForName
                  ELSE properties[name]
      props_for_name == IF ~is_const /\ IsAnyStore(access_mode)
                        THEN NoPropsForName ELSE emplaced
  IN [properties EXCEPT ![name] = [props_for_name EXCEPT ![object] = value]]

\* TryFindLoadedProperty(loaded_properties, lookup_start_object, name)
TryFindLoadedProperty(properties, object, name) ==
  IF properties[name] = Null THEN KPFail
  ELSE IF properties[name][object] = nullptr THEN KPFail
  ELSE KPDoneWithValue(properties[name][object])

\* The answer of TryReuseKnownPropertyLoad in the current state.
KnownPropertyLoad(object, name) ==
  LET loaded == TryFindLoadedProperty(loaded_properties, object, name)
      constant == TryFindLoadedProperty(loaded_constant_properties, object,
                                        name)
  IN IF loaded.done THEN loaded
     ELSE IF constant.done THEN constant
     ELSE KPFail

KPCall(op, object, name, value, is_const, access_mode, result) ==
  [op |-> op, object |-> object, name |-> name, value |-> value,
   is_const |-> is_const, access_mode |-> access_mode, result |-> result,
   loaded_before |-> loaded_properties,
   constant_before |-> loaded_constant_properties]

InitKP ==
  /\ loaded_properties = NoLoadedProperties
  /\ loaded_constant_properties = NoLoadedProperties
  /\ kp_ops = 0
  /\ kp_last = KPCall("none", nullptr, "a", nullptr, FALSE, "kLoad", KPFail)

ParkedKP ==
  /\ loaded_properties = <<>>
  /\ loaded_constant_properties = <<>>
  /\ kp_ops = 0
  /\ kp_last = <<>>

\* MaglevGraphBuilder::RecordKnownProperty(lookup_start_object, name, value,
\* is_const, access_mode)
RecordKnownProperty(object, name, value, is_const, access_mode) ==
  /\ kp_ops < MaxCacheOps
  /\ kp_ops' = kp_ops + 1
  /\ IF is_const
     THEN /\ loaded_constant_properties' =
               RecordInto(loaded_constant_properties, object, name, value,
                          is_const, access_mode)
          /\ UNCHANGED loaded_properties
     ELSE /\ loaded_properties' =
               RecordInto(loaded_properties, object, name, value, is_const,
                          access_mode)
          /\ UNCHANGED loaded_constant_properties
  /\ kp_last' = KPCall("RecordKnownProperty", object, name, value, is_const,
                       access_mode, KPFail)
  /\ UNCHANGED OutsideKP

\* MaglevGraphBuilder::TryReuseKnownPropertyLoad(lookup_start_object, name)
TryReuseKnownPropertyLoad(object, name) ==
  /\ kp_ops < MaxCacheOps
  /\ kp_ops' = kp_ops + 1
  /\ kp_last' = KPCall("TryReuseKnownPropertyLoad", object, name, nullptr,
                       FALSE, "kLoad", KnownPropertyLoad(object, name))
  /\ UNCHANGED <<loaded_properties, loaded_constant_properties, OutsideKP>>

(***************************************************************************)
(* DeoptFrameScope and GetDeoptFrameForLazyDeopt                           *)
(***************************************************************************)
MaxScopes == 2
MaxBuilders == 2

\* DeoptFrame::FrameType of the data of a DeoptFrameScope
ScopeFrameTypes == {"kBuiltinContinuationFrame", "kConstructInvokeStubFrame"}

\* BytecodeLivenessState: the accumulator and the live registers.
Liveness(accumulator, registers) ==
  [accumulator |-> accumulator, registers |-> registers]

DFLivenesses == {Liveness(a, {0}) : a \in BOOLEAN}

\* BytecodeLivenessState::MarkAccumulatorDead on a copy
MarkAccumulatorDead(liveness) == [liveness EXCEPT !.accumulator = FALSE]

\* A builder: current_deopt_scope_ and its parents (innermost first), the
\* out-liveness of its current bytecode, and whether it has
\* inlined_arguments_.
DFBuilder(scopes, liveness, inlined_arguments) ==
  [scopes |-> scopes, liveness |-> liveness,
   inlined_arguments |-> inlined_arguments]

\* A deopt frame: its type, the depth of the builder it belongs to (the
\* current builder has the greatest), and for an interpreted frame its
\* liveness.
DFFrame(type, depth, liveness) ==
  [type |-> type, depth |-> depth, liveness |-> liveness]

NoLiveness == Liveness(FALSE, {})

\* The helper that passes its own mark_accumulator_dead down to the parent
\* scope instead of the scope's frame type.
RECURSIVE LazyDeoptHelperPassingMarkDown(_, _, _)
LazyDeoptHelperPassingMarkDown(builders, scopes, mark_accumulator_dead) ==
  LET builder == builders[1]
      depth == Len(builders)
      liveness == IF mark_accumulator_dead /\ builder.liveness.accumulator
                  THEN MarkAccumulatorDead(builder.liveness)
                  ELSE builder.liveness
      parent_deopt_frame ==
        IF depth = 1 THEN <<>>
        ELSE (IF builder.inlined_arguments
              THEN <<DFFrame("kInlinedArgumentsFrame", depth, NoLiveness)>>
              ELSE <<>>)
               \o LazyDeoptHelperPassingMarkDown(
                    Tail(builders), builders[2].scopes, TRUE)
  IN IF scopes = <<>>
     THEN <<DFFrame("kInterpretedFrame", depth, liveness)>>
            \o parent_deopt_frame
     ELSE <<DFFrame(Head(scopes), depth, NoLiveness)>>
            \o LazyDeoptHelperPassingMarkDown(builders, Tail(scopes),
                                              mark_accumulator_dead)

\* MaglevGraphBuilder::GetDeoptFrameForLazyDeoptHelper(scope,
\* mark_accumulator_dead), with GetParentDeoptFrame for the parent of the
\* interpreted frame.
RECURSIVE GetDeoptFrameForLazyDeoptHelper(_, _, _)
GetDeoptFrameForLazyDeoptHelper(builders, scopes, mark_accumulator_dead) ==
  LET builder == builders[1]
      depth == Len(builders)
      liveness == IF mark_accumulator_dead /\ builder.liveness.accumulator
                  THEN MarkAccumulatorDead(builder.liveness)
                  ELSE builder.liveness
      parent_deopt_frame ==
        IF depth = 1 THEN <<>>
        ELSE (IF builder.inlined_arguments
              THEN <<DFFrame("kInlinedArgumentsFrame", depth, NoLiveness)>>
              ELSE <<>>)
               \o GetDeoptFrameForLazyDeoptHelper(
                    Tail(builders), builders[2].scopes, TRUE)
  IN IF scopes = <<>>
     THEN <<DFFrame("kInterpretedFrame", depth, liveness)>>
            \o parent_deopt_frame
     ELSE <<DFFrame(Head(scopes), depth, NoLiveness)>>
            \o GetDeoptFrameForLazyDeoptHelper(
                 builders, Tail(scopes),
                 Head(scopes) = "kBuiltinContinuationFrame")

InitDF ==
  /\ \E liveness \in DFLivenesses :
       df_builders = <<DFBuilder(<<>>, liveness, FALSE)>>
  /\ df_last = <<>>

ParkedDF ==
  /\ df_builders = <<>>
  /\ df_last = <<>>

\* DeoptFrameScope::DeoptFrameScope(builder, ...): the scope becomes the
\* builder's current_deopt_scope_, its parent_ is the one before.
EnterDeoptFrameScope(type) ==
  /\ Len(df_builders[1].scopes) < MaxScopes
  /\ df_builders' = [df_builders EXCEPT ![1].scopes = <<type>> \o @]
  /\ df_last' = <<>>
  /\ UNCHANGED OutsideDF

\* DeoptFrameScope::~DeoptFrameScope()
LeaveDeoptFrameScope ==
  /\ df_builders[1].scopes # <<>>
  /\ df_builders' = [df_builders EXCEPT ![1].scopes = Tail(@)]
  /\ df_last' = <<>>
  /\ UNCHANGED OutsideDF

\* TryBuildInlinedCall: an inner builder, whose parent_ is the current one,
\* builds the callee; it starts without scope.
EnterInlinedBuilder(liveness, inlined_arguments) ==
  /\ Len(df_builders) < MaxBuilders
  /\ df_builders' =
       <<DFBuilder(<<>>, liveness, inlined_arguments)>> \o df_builders
  /\ df_last' = <<>>
  /\ UNCHANGED OutsideDF

\* TryBuildInlinedCall: the inner builder is done, all its scopes are gone.
LeaveInlinedBuilder ==
  /\ Len(df_builders) > 1
  /\ df_builders[1].scopes = <<>>
  /\ df_builders' = Tail(df_builders)
  /\ df_last' = <<>>
  /\ UNCHANGED OutsideDF

\* MaglevGraphBuilder::GetDeoptFrameForLazyDeopt()
GetDeoptFrameForLazyDeopt ==
  /\ df_last' = GetDeoptFrameForLazyDeoptHelper(
                  df_builders, df_builders[1].scopes, FALSE)
  /\ UNCHANGED <<df_builders, OutsideDF>>

(***************************************************************************)
(* ShouldInlineCall and the nesting of TryBuildInlinedCall                 *)
(***************************************************************************)
MaxFunctions == 2

\* The flags, in bytes of bytecode and levels of nesting; the minimum
\* inlining frequency is 2^-min_maglev_inlining_frequency_exponent.
max_maglev_inlined_bytecode_size_small == 2
max_maglev_inlined_bytecode_size == 4
max_maglev_inlined_bytecode_size_cumulative == 6
max_maglev_inline_depth == 1
min_maglev_inlining_frequency_exponent == 2

INFunctions == 1 .. MaxFunctions
NoCallee == 0

\* Bytecode lengths: below the small threshold, between the thresholds,
\* above the maximum.
INLengths ==
  {max_maglev_inlined_bytecode_size_small - 1,
   max_maglev_inlined_bytecode_size - 1,
   max_maglev_inlined_bytecode_size + 1}

\* A frequency is 0 (kZeroFrequency) or 2^-k, kept as k; the feedback of a
\* call site is insufficient (frequency 0), 1.0 or 0.5.
kZeroFrequency == -1
INFeedbackFrequencies == {kZeroFrequency, 0, 1}

\* What ShouldInlineCall finds in a function before it looks at sizes.
INObstacles ==
  {"none", "no feedback vector", "not inlineable",
   "NewTargetOrGenerator register", "exception handlers",
   "arguments object"}

\* feedback_frequency * call_frequency_, both 0 or a power of two
FrequencyProduct(feedback_frequency, frequency) ==
  IF feedback_frequency = kZeroFrequency \/ frequency = kZeroFrequency
  THEN kZeroFrequency
  ELSE feedback_frequency + frequency

\* call_frequency < v8_flags.min_maglev_inlining_frequency
BelowMinInliningFrequency(frequency) ==
  \/ frequency = kZeroFrequency
  \/ frequency > min_maglev_inlining_frequency_exponent

\* inlining_depth() matters only as far as it exceeds the maximum depth:
\* every depth beyond is kept as the maximum plus one.
NextInliningDepth(depth) == Min(depth + 1, max_maglev_inline_depth + 1)

\* ShouldInlineCall with the depth check in front of the size checks.
ShouldInlineCallCheckingDepthFirst(shared, call_frequency) ==
  LET callee == in_functions[shared]
  IN /\ in_total <= max_maglev_inlined_bytecode_size_cumulative
     /\ in_unit # shared
     /\ callee.obstacle = "none"
     /\ ~BelowMinInliningFrequency(call_frequency)
     /\ in_depth <= max_maglev_inline_depth
     /\ callee.length <= max_maglev_inlined_bytecode_size

\* MaglevGraphBuilder::ShouldInlineCall(shared, feedback_vector,
\* call_frequency): the answer.
ShouldInlineCall(shared, call_frequency) ==
  LET callee == in_functions[shared]
  IN /\ in_total <= max_maglev_inlined_bytecode_size_cumulative
     /\ in_unit # shared
     /\ callee.obstacle = "none"
     /\ ~BelowMinInliningFrequency(call_frequency)
     /\ \/ callee.length < max_maglev_inlined_bytecode_size_small
        \/ /\ callee.length <= max_maglev_inlined_bytecode_size
           /\ in_depth <= max_maglev_inline_depth

\* ShouldInlineCall: graph()->add_inlined_bytecode_size(bytecode.length()),
\* which a small function skips.
InlinedBytecodeSizeAfter(shared) ==
  IF in_functions[shared].length < max_maglev_inlined_bytecode_size_small
  THEN in_total
  ELSE in_total + in_functions[shared].length

\* Every call graph; the last function may be unfit for inlining.
InitIN ==
  /\ \E obstacle \in INObstacles :
       \E fit \in [INFunctions ->
                     [length : INLengths,
                      callee : INFunctions \cup {NoCallee},
                      frequency : INFeedbackFrequencies]] :
         in_functions =
           [f \in INFunctions |->
              [length |-> fit[f].length, callee |-> fit[f].callee,
               frequency |-> fit[f].frequency,
               obstacle |-> IF f = MaxFunctions THEN obstacle ELSE "none"]]
  /\ in_unit = 1
  /\ in_depth = 0
  /\ call_frequency_ = 0
  /\ in_total = 0
  /\ in_pc = "building"

ParkedIN ==
  /\ in_functions = <<>>
  /\ in_unit = 0
  /\ in_depth = 0
  /\ call_frequency_ = 0
  /\ in_total = 0
  /\ in_pc = "done"

\* MaglevGraphBuilder::TryBuildInlinedCall, at the call site of the
\* innermost builder: Fail ends the nesting, else the inner builder builds
\* the callee.
TryBuildInlinedCall ==
  LET shared == in_functions[in_unit].callee
      call_frequency == FrequencyProduct(in_functions[in_unit].frequency,
                                         call_frequency_)
  IN /\ in_pc = "building"
     /\ shared # NoCallee
     /\ IF ShouldInlineCall(shared, call_frequency)
        THEN /\ in_unit' = shared
             /\ in_depth' = NextInliningDepth(in_depth)
             /\ call_frequency_' = call_frequency
             /\ in_total' = InlinedBytecodeSizeAfter(shared)
             /\ UNCHANGED in_pc
        ELSE /\ in_pc' = "done"
             /\ UNCHANGED <<in_unit, in_depth, call_frequency_, in_total>>
     /\ UNCHANGED <<in_functions, OutsideIN>>

\* BuildBody of a function without call site: nothing to inline.
BuildBodyWithoutCall ==
  /\ in_pc = "building"
  /\ in_functions[in_unit].callee = NoCallee
  /\ in_pc' = "done"
  /\ UNCHANGED <<in_functions, in_unit, in_depth, call_frequency_, in_total,
                 OutsideIN>>

(***************************************************************************)
(* BuildInlined and the end of TryBuildInlinedCall                         *)
(***************************************************************************)
MaxInlineChain == 3
MaxBlocks == 3

\* A builder of the chain.  Blocks are numbered from 1.
FRBuilder(block, fused, exit_state, forward) ==
  [current_block |-> block, terminated_with_fused_branch |-> fused,
   exit_merge_state |-> exit_state, forward_merge_state |-> forward]

\* BuildInlined after BuildBody: the result, the builder as it is left, and
\* whether the block at the inline exit was created.
BuildInlinedResult(inner, new_block) ==
  IF inner.terminated_with_fused_branch
  THEN [result |-> "DoneWithoutValue", builder |-> inner, merged |-> FALSE]
  ELSE IF inner.current_block = nullptr
  THEN IF ~inner.exit_merge_state
       THEN [result |-> "DoneWithAbort", builder |-> inner, merged |-> FALSE]
       ELSE [result |-> "DoneWithValue",
             builder |-> [inner EXCEPT !.current_block = new_block],
             merged |-> TRUE]
  ELSE [result |-> "DoneWithValue", builder |-> inner, merged |-> FALSE]

\* The end of TryBuildInlinedCall that resumes in the inner builder's final
\* block whatever the result.
CallerBlockAlwaysResumed(result, current_block, inner_block) ==
  IF result = "DoneWithAbort" THEN nullptr ELSE inner_block

\* TryBuildInlinedCall after BuildInlined: the caller's current_block_.
CallerBlockAfterInlining(result, current_block, inner_block) ==
  IF result = "DoneWithAbort" THEN nullptr
  ELSE IF result = "DoneWithoutValue" THEN current_block
  ELSE inner_block

\* BuildFusedBranch from the builder at the head of `builders` with
\* inline_level `level`: the Return case hands the block to the parent and
\* goes on there; at level 0 the branch ends the block, and the fallthrough
\* is a new block or a merge point.
RECURSIVE BuildFusedBranch_Return(_, _, _)
BuildFusedBranch_Return(builders, level, fallthrough) ==
  IF level = 0
  THEN <<[builders[1] EXCEPT !.current_block = fallthrough,
                             !.forward_merge_state = TRUE]>>
         \o Tail(builders)
  ELSE <<[builders[1] EXCEPT !.terminated_with_fused_branch = TRUE,
                             !.current_block = nullptr]>>
         \o BuildFusedBranch_Return(
              <<[builders[2] EXCEPT
                   !.current_block = builders[1].current_block]>>
                \o Tail(Tail(builders)),
              level - 1, fallthrough)

\* TryFindNextBranch from the test in the innermost builder finds a branch
\* `level` frames out: each frame it leaves is at its last bytecode, a
\* Return, and has no merge state at its inline exit.
BranchFoundAtLevel(level) ==
  /\ level < Len(fr_builders)
  /\ \A i \in 1 .. level : ~fr_builders[i].exit_merge_state

NoInlinedCall ==
  [called |-> FALSE, result |-> "none", inner |-> <<>>, merged |-> FALSE,
   caller_before |-> nullptr, caller_after |-> nullptr]

InitFR ==
  /\ fr_builders = <<FRBuilder(1, FALSE, FALSE, FALSE)>>
  /\ fr_blocks = 1
  /\ fr_last = NoInlinedCall

ParkedFR ==
  /\ fr_builders = <<>>
  /\ fr_blocks = 0
  /\ fr_last = <<>>

\* The innermost builder still visits bytecodes of its body.
FRBuilding == ~fr_builders[1].terminated_with_fused_branch

\* TryBuildInlinedCall up to BuildInlined: the inner builder builds in the
\* caller's current block.
StartInlinedCall ==
  /\ FRBuilding
  /\ fr_builders[1].current_block # nullptr
  /\ Len(fr_builders) < MaxInlineChain
  /\ fr_builders' =
       <<FRBuilder(fr_builders[1].current_block, FALSE, FALSE, FALSE)>>
         \o fr_builders
  /\ UNCHANGED <<fr_blocks, fr_last, OutsideFR>>

\* VisitReturn of an inlined function where the return is not elided: a Jump
\* to the inline exit, merged into the return frame state.
VisitReturn_Jump ==
  /\ FRBuilding
  /\ Len(fr_builders) > 1
  /\ fr_builders[1].current_block # nullptr
  /\ fr_builders' = [fr_builders EXCEPT ![1].current_block = nullptr,
                                        ![1].exit_merge_state = TRUE]
  /\ UNCHANGED <<fr_blocks, fr_last, OutsideFR>>

\* A conditional jump forward: the target gets a merge state, the
\* fallthrough a new block.
VisitJumpForward ==
  /\ FRBuilding
  /\ fr_builders[1].current_block # nullptr
  /\ fr_blocks < MaxBlocks
  /\ fr_blocks' = fr_blocks + 1
  /\ fr_builders' = [fr_builders EXCEPT ![1].current_block = fr_blocks + 1,
                                        ![1].forward_merge_state = TRUE]
  /\ UNCHANGED <<fr_last, OutsideFR>>

\* The block ends without successor: an unconditional deopt, a throw.
FinishBlockAbort ==
  /\ FRBuilding
  /\ fr_builders[1].current_block # nullptr
  /\ fr_builders' = [fr_builders EXCEPT ![1].current_block = nullptr]
  /\ UNCHANGED <<fr_blocks, fr_last, OutsideFR>>

\* VisitSingleBytecode at the target of a forward jump: a new block starts
\* from the merge state.
StartBlockAtMergePoint ==
  /\ FRBuilding
  /\ fr_builders[1].forward_merge_state
  /\ fr_blocks < MaxBlocks
  /\ fr_blocks' = fr_blocks + 1
  /\ fr_builders' = [fr_builders EXCEPT ![1].current_block = fr_blocks + 1,
                                        ![1].forward_merge_state = FALSE]
  /\ UNCHANGED <<fr_last, OutsideFR>>

\* A test in the innermost builder is fused with the branch `level` frames
\* out (BuildFusedBranch, through its Return case).
VisitTestFusedAcrossReturn(level, starts_block) ==
  /\ FRBuilding
  /\ fr_builders[1].current_block # nullptr
  /\ level >= 1
  /\ BranchFoundAtLevel(level)
  /\ starts_block => fr_blocks < MaxBlocks
  /\ fr_blocks' = IF starts_block THEN fr_blocks + 1 ELSE fr_blocks
  /\ fr_builders' =
       BuildFusedBranch_Return(fr_builders, level,
                               IF starts_block THEN fr_blocks + 1
                               ELSE nullptr)
  /\ UNCHANGED <<fr_last, OutsideFR>>

\* BuildInlined after BuildBody, and TryBuildInlinedCall after BuildInlined.
FinishInlinedCall ==
  /\ Len(fr_builders) > 1
  /\ \/ fr_builders[1].current_block # nullptr
     \/ ~fr_builders[1].exit_merge_state
     \/ fr_blocks < MaxBlocks
  /\ LET built == BuildInlinedResult(fr_builders[1], fr_blocks + 1)
         caller == fr_builders[2]
         block == CallerBlockAfterInlining(built.result, caller.current_block,
                                           built.builder.current_block)
     IN /\ fr_blocks' = IF built.merged THEN fr_blocks + 1 ELSE fr_blocks
        /\ fr_builders' = <<[caller EXCEPT !.current_block = block]>>
                            \o Tail(Tail(fr_builders))
        /\ fr_last' = [called |-> TRUE, result |-> built.result,
                       inner |-> built.builder, merged |-> built.merged,
                       caller_before |-> caller.current_block,
                       caller_after |-> block]
  /\ UNCHANGED OutsideFR

(***************************************************************************)
\* The number of bytecodes that follow the test in the builder's bytecode.
MaxScan == 2

\* The bytecodes that may follow the test; register 2 is a parameter.
FBParameters == {2}
FBBytecodes ==
  {Bytecode("Mov", 0, 1), Bytecode("ToBoolean", 0, 0),
   Bytecode("LogicalNot", 0, 0), Bytecode("ToBooleanLogicalNot", 0, 0),
   Bytecode("Star", 1, 0), Bytecode("Star", 2, 0), Bytecode("Star0", 0, 0),
   Bytecode("Return", 0, 0), Bytecode("LdaSmi", 5, 0),
   Bytecode("JumpIfToBooleanFalse", 0, 0), Bytecode("JumpIfTrue", 0, 0)}

FBUnit(program, merge_points, live, new_target_is_root) ==
  [program |-> program, offset |-> 0, merge_points |-> merge_points,
   live |-> live, parameters |-> FBParameters,
   new_target_is_root |-> new_target_is_root]

\* The builders a test is visited by: the iterator is on the test at offset
\* 0, and at most one offset after it is a merge point.
FBBuilders ==
  {FBUnit(<<Bytecode("TestUndefined", 0, 0)>> \o body, merge_points, live,
          new_target_is_root) :
     body \in [1 .. MaxScan -> FBBytecodes],
     merge_points \in {{}} \cup {{o} : o \in 1 .. (MaxScan + 1)},
     live \in {{}, {0, 1}},
     new_target_is_root \in BOOLEAN}

\* The callers a builder may be inlined into: the iterator is on the call.
FBCallerBodies ==
  {<<Bytecode("JumpIfTrue", 0, 0)>>,
   <<Bytecode("LogicalNot", 0, 0), Bytecode("JumpIfToBooleanFalse", 0, 0)>>,
   <<Bytecode("Star0", 0, 0), Bytecode("JumpIfTrue", 0, 0)>>,
   <<Bytecode("LdaSmi", 5, 0)>>}
FBCallers(live) ==
  {FBUnit(<<Bytecode("CallUndefinedReceiver0", 0, 0)>> \o body, merge_points,
          live, TRUE) :
     body \in FBCallerBodies, merge_points \in {{}, {1}}}

NotSearched == [called |-> FALSE, offset |-> kNoBranch, inline_level |-> 0]

\* The callers in between, which return right after the call; they may
\* construct, and their inline exit may be a merge point.
FBReturningCallers(live) ==
  {FBUnit(<<Bytecode("CallUndefinedReceiver0", 0, 0),
            Bytecode("Return", 0, 0)>>, merge_points, live,
          new_target_is_root) :
     merge_points \in {{}, {2}}, new_target_is_root \in BOOLEAN}

\* The outermost callers of a chain of two inlined functions.
FBOuterCallers(live) ==
  {FBUnit(<<Bytecode("CallUndefinedReceiver0", 0, 0)>> \o body, {}, live,
          TRUE) :
     body \in {<<Bytecode("JumpIfTrue", 0, 0)>>, <<Bytecode("Return", 0, 0)>>}}

InitFB ==
  /\ \E b \in FBBuilders :
       fb_frames \in {<<b>>} \cup {<<b, c>> : c \in FBCallers(b.live)}
                     \cup {<<b, c, d>> : c \in FBReturningCallers(b.live),
                                        d \in FBOuterCallers(b.live)}
  /\ fb_result = NotSearched

ParkedFB ==
  /\ fb_frames = <<>>
  /\ fb_result = <<>>

\* A test visitor calls TryFindNextBranch(&inline_level) with inline_level 0;
\* the search runs on a copy of the iterator.
FindNextBranch ==
  /\ ~fb_result.called
  /\ fb_frames # <<>>
  /\ LET found == FindNextBranchIn(fb_frames, 0, fb_frames[1].offset + 1)
     IN fb_result' = [called |-> TRUE, offset |-> found.offset,
                      inline_level |-> found.inline_level]
  /\ UNCHANGED <<fb_frames, OutsideFB>>

(***************************************************************************)
(* Specifications                                                          *)
(***************************************************************************)
NextRS ==
  \/ \E s \in Slots : RememberedSetInsert(s)
  \/ MoveOldToNewRememberedSetForSweeping
  \/ MergeOldToNewRememberedSets

InitSpecRS ==
  InitRS /\ ParkedCat /\ ParkedCL /\ ParkedCV
  /\ ParkedMP /\ ParkedPL /\ ParkedBC
  /\ ParkedLA /\ ParkedBA /\ ParkedFB
  /\ ParkedSH
  /\ ParkedKP
  /\ ParkedDF
  /\ ParkedIN
  /\ ParkedFR

SpecRS == InitSpecRS /\ [][NextRS]_vars

NextCat ==
  \/ AllocateFreeListCategories
  \/ AllocateFreeListCategoriesDcheckFails
  \/ InitializeFreeListCategories
  \/ ReleaseFreeListCategories

InitSpecCat ==
  InitCat /\ InitRS /\ ParkedCL /\ ParkedCV
  /\ ParkedMP /\ ParkedPL /\ ParkedBC
  /\ ParkedLA /\ ParkedBA /\ ParkedFB
  /\ ParkedSH
  /\ ParkedKP
  /\ ParkedDF
  /\ ParkedIN
  /\ ParkedFR

SpecCat == InitSpecCat /\ [][NextCat]_vars

NextCL == ComputeLimit

InitSpecCL ==
  InitCL /\ InitRS /\ ParkedCat /\ ParkedCV
  /\ ParkedMP /\ ParkedPL /\ ParkedBC
  /\ ParkedLA /\ ParkedBA /\ ParkedFB
  /\ ParkedSH
  /\ ParkedKP
  /\ ParkedDF
  /\ ParkedIN
  /\ ParkedFR

SpecCL == InitSpecCL /\ [][NextCL]_vars

NextCV ==
  \/ \E v \in NodeIds : RequestTaggedValue(v)
  \/ \E v \in NodeIds : RequestInt32(v)
  \/ \E v \in NodeIds : RequestFloat64(v)
  \/ \E v \in NodeIds, hint \in ToNumberHints :
       RequestFloat64ForToNumber(v, hint)
  \/ \E v \in NodeIds, hint \in ToNumberHints :
       RequestTruncatedInt32ForToNumber(v, hint)

InitSpecCV ==
  InitCV /\ InitRS /\ ParkedCat /\ ParkedCL
  /\ ParkedMP /\ ParkedPL /\ ParkedBC
  /\ ParkedLA /\ ParkedBA /\ ParkedFB
  /\ ParkedSH
  /\ ParkedKP
  /\ ParkedDF
  /\ ParkedIN
  /\ ParkedFR

SpecCV == InitSpecCV /\ [][NextCV]_vars

NextMP ==
  \/ \E maps \in RequestedMaps : CheckMapsOf(maps)
  \/ BuildCheckString
  \/ BuildCheckNumber
  \/ BuildCheckJSReceiver
  \/ BuildCheckHeapObject
  \/ \E map \in MapIds : SetKnownValue(map)
  \/ \E receiver \in {mp_object, OtherReceiver},
        feedback \in [maps : SUBSET MapIds, broker : BrokerAnswers],
        access_mode \in NamedAccessModes :
       NamedAccessOf(receiver, feedback, access_mode)

InitSpecMP ==
  InitMP /\ InitRS /\ ParkedCat /\ ParkedCL
  /\ ParkedCV /\ ParkedPL /\ ParkedBC
  /\ ParkedLA /\ ParkedBA /\ ParkedFB
  /\ ParkedSH
  /\ ParkedKP
  /\ ParkedDF
  /\ ParkedIN
  /\ ParkedFR

SpecMP == InitSpecMP /\ [][NextMP]_vars

NextPL ==
  \/ \E jump_offset \in Offsets : VisitFoldedBranchBeforeLoop(jump_offset)
  \/ PeelLoopBegin
  \/ PeelVisitBytecode
  \/ \E jump_offset \in Offsets, is_jump_taken \in BOOLEAN :
       PeelVisitFoldedBranch(jump_offset, is_jump_taken)
  \/ \E jump_offset \in Offsets, conditional \in BOOLEAN :
       PeelVisitDeadJump(jump_offset, conditional)
  \/ \E merge_dead_loop \in BOOLEAN : PeelLoopFinish(merge_dead_loop)

InitSpecPL ==
  InitPL /\ InitRS /\ ParkedCat /\ ParkedCL
  /\ ParkedCV /\ ParkedMP /\ ParkedBC
  /\ ParkedLA /\ ParkedBA /\ ParkedFB
  /\ ParkedSH
  /\ ParkedKP
  /\ ParkedDF
  /\ ParkedIN
  /\ ParkedFR

SpecPL == InitSpecPL /\ [][NextPL]_vars

NextBC ==
  \/ VisitLdaSmi
  \/ VisitLdaUndefined
  \/ VisitLdaTrue
  \/ VisitStar
  \/ VisitLdar
  \/ VisitMov
  \/ VisitLogicalNot
  \/ VisitTestUndefined
  \/ VisitJumpIfTrue
  \/ VisitJumpIfFalse
  \/ VisitJumpIfUndefined

InitSpecBC ==
  InitBC /\ InitRS /\ ParkedCat /\ ParkedCL
  /\ ParkedCV /\ ParkedMP
  /\ ParkedLA /\ ParkedBA /\ ParkedFB
  /\ ParkedSH
  /\ ParkedKP
  /\ ParkedDF
  /\ ParkedIN
  /\ ParkedFR

SpecBC == InitSpecBC /\ [][NextBC]_vars

NextLA ==
  \/ \E end \in LimitEnds : UpdateLimit(end)
  \/ \E size \in LabSizes : BumpAllocate(size)
  \/ AdvanceAllocationObservers
  \/ PauseAllocationObservers
  \/ \E end \in LimitEnds : ResumeAllocationObservers(end)
  \/ \E step \in StepSizes, end \in LimitEnds :
       AddAllocationObserver(step, end)
  \/ \E end \in LimitEnds : RemoveAllocationObserver(end)
  \/ \E size \in LabSizes, filler \in {0, AddrGrain}, extra \in {0, AddrGrain},
        step \in StepSizes :
       AllocateRawSlow(size, filler, extra, step)

InitSpecLA ==
  InitLA /\ InitRS /\ ParkedCat /\ ParkedCL
  /\ ParkedCV /\ ParkedMP /\ ParkedPL /\ ParkedBC /\ ParkedBA /\ ParkedFB
  /\ ParkedSH
  /\ ParkedKP
  /\ ParkedDF
  /\ ParkedIN
  /\ ParkedFR

SpecLA == InitSpecLA /\ [][NextLA]_vars

NextBA ==
  \/ \E r \in PageRanges : CreateBlackArea(r[1], r[2])
  \/ \E r \in PageRanges : DestroyBlackArea(r[1], r[2])
  \/ \E t \in Threads, r \in PageRanges :
       CreateBlackAreaBackground(t, r[1], r[2])
  \/ \E t \in Threads, r \in PageRanges :
       DestroyBlackAreaBackground(t, r[1], r[2])
  \/ \E t \in Threads : BackgroundIncrementLiveBytes(t)

InitSpecBA ==
  InitBA /\ InitRS /\ ParkedCat /\ ParkedCL
  /\ ParkedCV /\ ParkedMP /\ ParkedPL /\ ParkedBC /\ ParkedLA /\ ParkedFB
  /\ ParkedSH
  /\ ParkedKP
  /\ ParkedDF
  /\ ParkedIN
  /\ ParkedFR

SpecBA == InitSpecBA /\ [][NextBA]_vars

NextFU ==
  \/ VisitTestUndefined
  \/ VisitToBoolean
  \/ VisitToBooleanLogicalNot
  \/ VisitMov
  \/ VisitLogicalNot
  \/ VisitStar

InitSpecFU ==
  InitFU /\ InitRS /\ ParkedCat /\ ParkedCL
  /\ ParkedCV /\ ParkedMP
  /\ ParkedLA /\ ParkedBA /\ ParkedFB
  /\ ParkedSH
  /\ ParkedKP
  /\ ParkedDF
  /\ ParkedIN
  /\ ParkedFR

SpecFU == InitSpecFU /\ [][NextFU]_vars

\* VisitJumpIfNotUndefined:
\* BuildBranchIfUndefined(GetAccumulatorTagged(), kJumpIfFalse)
VisitJumpIfNotUndefined ==
  /\ AtBytecode("JumpIfNotUndefined")
  /\ LET node == GetAccumulatorTagged(BCBuilder)
     IN BCVisited(BuildBranchIfRootConstant(node.st, node.res, "kJumpIfFalse",
                                            kUndefinedValue, "kDefault"))

\* VisitJumpIfToBooleanTrue:
\* BuildBranchIfToBooleanTrue(GetRawAccumulator(), kJumpIfTrue)
VisitJumpIfToBooleanTrue ==
  /\ AtBytecode("JumpIfToBooleanTrue")
  /\ BCVisited(BuildBranchIfToBooleanTrue(
                 BCBuilder, GetRawAccumulator(BCBuilder), "kJumpIfTrue"))

\* VisitJumpIfToBooleanFalse:
\* BuildBranchIfToBooleanTrue(GetRawAccumulator(), kJumpIfFalse)
VisitJumpIfToBooleanFalse ==
  /\ AtBytecode("JumpIfToBooleanFalse")
  /\ BCVisited(BuildBranchIfToBooleanTrue(
                 BCBuilder, GetRawAccumulator(BCBuilder), "kJumpIfFalse"))

\* A value is loaded, negated up to MaxPrefix - 1 times and tested by a
\* conditional jump.
KBLoads ==
  {Bytecode("LdaSmi", 0, 0), Bytecode("LdaSmi", 5, 0),
   Bytecode("LdaUndefined", 0, 0), Bytecode("LdaTrue", 0, 0),
   Bytecode("Ldar", 0, 0)}

KBJumpOps ==
  {"JumpIfTrue", "JumpIfFalse", "JumpIfUndefined", "JumpIfNotUndefined",
   "JumpIfToBooleanTrue", "JumpIfToBooleanFalse"}

KBPrograms ==
  {<<load>> \o [i \in 1 .. nots |-> Bytecode("LogicalNot", 0, 0)]
     \o <<Bytecode(jump, BCJumpTarget, 0)>> :
     load \in KBLoads, nots \in 0 .. (MaxPrefix - 1), jump \in KBJumpOps}

\* What a successor offset with `count` predecessors can hold when the jump
\* is reached: nothing, the state an earlier jump merged into, or the state
\* of a loop header.
KBSuccessorStates(count) ==
  {NoMergeState}
    \cup (IF count >= 2
          THEN {NewMergeState(count), NewForLoop(count, FALSE)}
          ELSE {})

\* The builder at offset 0: register 0 holds a value that is no constant, of
\* which the builder may know the type.
InitKB ==
  /\ bc_program \in KBPrograms
  /\ bc_live = {}
  /\ bc_nodes = <<Node("InitialValue", nullptr, "Tagged", 0, FALSE),
                  DoubleNode("RootConstant", "Tagged",
                             Double(kUndefinedValue, kIntegral))>>
  /\ \E type \in {kUnknown, kBoolean, kSmi, kString, kJSReceiver} :
       bc_info = [n \in BCNodeIds |->
                    IF n = 1 /\ type # kUnknown
                    THEN [NoInfo EXCEPT !.present = TRUE, !.type = type]
                    ELSE NoInfo]
  /\ current_interpreter_frame_ =
       [r \in BCRegisters \cup {kAccumulator} |-> IF r = 0 THEN 1 ELSE 2]
  /\ bc_control = <<>>
  /\ bc_branch_accumulators = [offset \in BCOffsets |-> nullptr]
  /\ bc_pc = "building"
  /\ bc_fused = NotFused
  /\ \E jump_count \in 1 .. MaxPredecessors,
        fallthrough_count \in 1 .. MaxPredecessors :
       /\ predecessors_ =
            [offset \in BCOffsets |->
               IF offset = BCJumpTarget THEN jump_count
               ELSE IF offset = Len(bc_program) THEN fallthrough_count
               ELSE 1]
       /\ \E jump_state \in KBSuccessorStates(jump_count),
             fallthrough_state \in KBSuccessorStates(fallthrough_count) :
            merge_states_ =
              [offset \in BCOffsets |->
                 IF offset = BCJumpTarget THEN jump_state
                 ELSE IF offset = Len(bc_program) THEN fallthrough_state
                 ELSE NoMergeState]
  /\ decremented_predecessor_offsets_ = <<>>
  /\ in_peeled_iteration_ \in BOOLEAN
  /\ allow_loop_peeling_ = FALSE
  /\ current_block_ = TRUE
  /\ iterator_offset = 0
  /\ pl_loop_header = 0
  /\ pl_jump_loop = 0
  /\ pl_pc = "none"
  /\ pl_pre = predecessors_
  /\ pl_recorded = <<>>
  /\ pl_block_at_end = TRUE
  /\ pl_dead = NoDeadMerge

NextKB ==
  \/ VisitLdaSmi
  \/ VisitLdaUndefined
  \/ VisitLdaTrue
  \/ VisitLdar
  \/ VisitLogicalNot
  \/ VisitJumpIfTrue
  \/ VisitJumpIfFalse
  \/ VisitJumpIfUndefined
  \/ VisitJumpIfNotUndefined
  \/ VisitJumpIfToBooleanTrue
  \/ VisitJumpIfToBooleanFalse

InitSpecKB ==
  InitKB /\ InitRS /\ ParkedCat /\ ParkedCL
  /\ ParkedCV /\ ParkedMP
  /\ ParkedLA /\ ParkedBA /\ ParkedFB
  /\ ParkedSH
  /\ ParkedKP
  /\ ParkedDF
  /\ ParkedIN
  /\ ParkedFR

SpecKB == InitSpecKB /\ [][NextKB]_vars

NextFB == FindNextBranch

InitSpecFB ==
  InitFB /\ InitRS /\ ParkedCat /\ ParkedCL /\ ParkedCV
  /\ ParkedMP /\ ParkedPL /\ ParkedBC /\ ParkedLA /\ ParkedBA
  /\ ParkedSH
  /\ ParkedKP
  /\ ParkedDF
  /\ ParkedIN
  /\ ParkedFR

SpecFB == InitSpecFB /\ [][NextFB]_vars


NextSH == ShrinkToHighWaterMark

InitSpecSH ==
  InitSH /\ InitRS /\ ParkedCat /\ ParkedCL
  /\ ParkedCV /\ ParkedMP /\ ParkedPL /\ ParkedBC
  /\ ParkedLA /\ ParkedBA /\ ParkedFB
  /\ ParkedKP
  /\ ParkedDF
  /\ ParkedIN
  /\ ParkedFR

SpecSH == InitSpecSH /\ [][NextSH]_vars

NextKP ==
  \/ \E object \in KPObjects, name \in KPNames, value \in KPValues,
        is_const \in BOOLEAN, access_mode \in KPAccessModes :
       RecordKnownProperty(object, name, value, is_const, access_mode)
  \/ \E object \in KPObjects, name \in KPNames :
       TryReuseKnownPropertyLoad(object, name)

InitSpecKP ==
  InitKP /\ InitRS /\ ParkedCat /\ ParkedCL
  /\ ParkedCV /\ ParkedMP /\ ParkedPL /\ ParkedBC
  /\ ParkedLA /\ ParkedBA /\ ParkedFB /\ ParkedSH
  /\ ParkedDF
  /\ ParkedIN
  /\ ParkedFR

SpecKP == InitSpecKP /\ [][NextKP]_vars

NextDF ==
  \/ \E type \in ScopeFrameTypes : EnterDeoptFrameScope(type)
  \/ LeaveDeoptFrameScope
  \/ \E liveness \in DFLivenesses, inlined_arguments \in BOOLEAN :
       EnterInlinedBuilder(liveness, inlined_arguments)
  \/ LeaveInlinedBuilder
  \/ GetDeoptFrameForLazyDeopt

InitSpecDF ==
  InitDF /\ InitRS /\ ParkedCat /\ ParkedCL
  /\ ParkedCV /\ ParkedMP /\ ParkedPL /\ ParkedBC
  /\ ParkedLA /\ ParkedBA /\ ParkedFB /\ ParkedSH /\ ParkedKP
  /\ ParkedIN
  /\ ParkedFR

SpecDF == InitSpecDF /\ [][NextDF]_vars

NextIN ==
  \/ TryBuildInlinedCall
  \/ BuildBodyWithoutCall

InitSpecIN ==
  InitIN /\ InitRS /\ ParkedCat /\ ParkedCL
  /\ ParkedCV /\ ParkedMP /\ ParkedPL /\ ParkedBC
  /\ ParkedLA /\ ParkedBA /\ ParkedFB /\ ParkedSH /\ ParkedKP /\ ParkedDF
  /\ ParkedFR

\* The builder runs to completion: a step that can be taken is taken.
SpecIN == InitSpecIN /\ [][NextIN]_vars /\ WF_vars(NextIN)

NextFR ==
  \/ StartInlinedCall
  \/ VisitReturn_Jump
  \/ VisitJumpForward
  \/ FinishBlockAbort
  \/ StartBlockAtMergePoint
  \/ \E level \in 1 .. MaxInlineChain, starts_block \in BOOLEAN :
       VisitTestFusedAcrossReturn(level, starts_block)
  \/ FinishInlinedCall

InitSpecFR ==
  InitFR /\ InitRS /\ ParkedCat /\ ParkedCL
  /\ ParkedCV /\ ParkedMP /\ ParkedPL /\ ParkedBC
  /\ ParkedLA /\ ParkedBA /\ ParkedFB /\ ParkedSH /\ ParkedKP /\ ParkedDF
  /\ ParkedIN

SpecFR == InitSpecFR /\ [][NextFR]_vars

(***************************************************************************)
(* Properties                                                              *)
(***************************************************************************)

\* C1: after MoveOldToNewRememberedSetForSweeping, insertions into the live
\* set and MergeOldToNewRememberedSets, the page's old-to-new set holds
\* exactly the slots recorded before the sweep and during it, an iteration
\* visits each of them once, and no sweeping set is left.
C1_MergeKeepsUnion ==
  rs_phase = "merged" =>
    /\ SlotSetContents(slot_set_old_to_new) = rs_pre \cup rs_during
    /\ Len(SlotSetIterate(slot_set_old_to_new, 0)) =
         Cardinality(rs_pre \cup rs_during)
    /\ \A i, j \in 1 .. Len(SlotSetIterate(slot_set_old_to_new, 0)) :
         i # j => SlotSetIterate(slot_set_old_to_new, 0)[i] #
                  SlotSetIterate(slot_set_old_to_new, 0)[j]
    /\ sweeping_slot_set_ = Null

\* A merge of overlapping, different, non-empty pre-sweep and during-sweep
\* recordings.
C1_Witness ==
  /\ rs_phase = "merged"
  /\ rs_last.op = "merge"
  /\ rs_last.live # Null
  /\ rs_last.sweeping # Null
  /\ rs_pre \cap rs_during # {}
  /\ rs_pre \ rs_during # {}
  /\ rs_during \ rs_pre # {}

\* C2: categories_ is null or every index of [kFirstCategory, last_category]
\* holds a category; a Release right after an Allocate leaves categories_
\* null with the categories of that Allocate deleted exactly once, and no
\* category is ever deleted twice; when every Allocate found categories_
\* null, nothing allocated survives the Release.
C2_CategoriesAllOrNothing ==
  /\ categories_ = Null \/ \A i \in CategoryRange : categories_[i] # nullptr
  /\ \A c \in CategoryIds : cat_deleted[c] <= 1
  /\ (cat_last.op = "release" /\ cat_last.prev = "allocate") =>
       /\ categories_ = Null
       /\ \A c \in cat_last.allocated : cat_deleted[c] = 1
       /\ cat_last.clean => (LiveCategories = {} /\ cat_arrays_live = 0)

\* Three categories, allocated and released twice.
C2_Witness ==
  /\ last_category = 2
  /\ cat_last.op = "release"
  /\ cat_last.prev = "allocate"
  /\ cat_last.clean
  /\ cat_next = 7
  /\ categories_ = Null

\* C3: ComputeLimit(start, end, min_size) returns a value in
\* [start + min_size, end], in each of its three modes.
C3_LimitInRange ==
  cl_result # NoResult =>
    /\ cl_start + cl_min_size <= cl_result
    /\ cl_result <= cl_end

\* The observer branch lowered the limit below end and above the minimum.
C3_Witness ==
  /\ cl_result # NoResult
  /\ ~cl_inline_disabled /\ cl_supports_observer /\ cl_active
  /\ cl_start + cl_min_size < cl_result
  /\ cl_result < cl_end

RoundUpToObjectAlignment(n) ==
  RoundSizeDownToObjectAlignment(n + kObjectAlignment - 1)

CLObserving == ~cl_inline_disabled /\ cl_supports_observer /\ cl_active

\* C4 as stated: with observers active the limit never exceeds
\* start + NextBytes() rounded to object alignment (rounded up, the reading
\* that allows most).
C4_Original ==
  (cl_result # NoResult /\ CLObserving) =>
    cl_result <= cl_start + RoundUpToObjectAlignment(cl_step)

\* C4 amended: with observers active the limit never exceeds
\* start + max(min_size, NextBytes() rounded down to object alignment).
C4_LimitWithinStepOrMinSize ==
  (cl_result # NoResult /\ CLObserving) =>
    cl_result <= cl_start +
                   Max(cl_min_size, RoundSizeDownToObjectAlignment(cl_step))

\* The step, not min_size or end, decided the limit.
C4_Witness ==
  /\ cl_result # NoResult
  /\ CLObserving
  /\ cl_result = cl_start + RoundSizeDownToObjectAlignment(cl_step - 1)
  /\ cl_result < cl_end
  /\ cl_min_size < cl_result - cl_start

\* The last two requests asked the same conversion of the same node.
CVRepeated ==
  /\ cv_last.fn # "none"
  /\ cv_last.fn = cv_prev.fn
  /\ cv_last.value = cv_prev.value
  /\ cv_last.hint = cv_prev.hint

\* C5 as stated: two consecutive requests of the same conversion of the same
\* node return the same node, and the second adds no conversion node, for
\* every source representation and every hint.
C5_Original ==
  CVRepeated => (cv_last.result = cv_prev.result /\ cv_last.added = 0)

\* The requests the builder does not memoize.
CVNotMemoized ==
  LET node == cv_nodes[cv_last.value]
  IN \/ /\ cv_last.fn = "GetTruncatedInt32ForToNumber"
        /\ node.repr = "Uint32"
     \/ /\ cv_last.fn = "GetFloat64ForToNumber"
        /\ cv_last.hint = "kAssumeNumberOrOddball"
        /\ node.repr = "HoleyFloat64"
     \/ /\ cv_last.fn = "GetFloat64ForToNumber"
        /\ cv_last.hint = "kAssumeNumberOrOddball"
        /\ node.repr = "Tagged"
        /\ ~Float64ConstantFolds(node, cv_last.hint)
        /\ ~NodeTypeIsNumber(cv_info[cv_last.value].type)

\* C5 amended: the same, except for GetTruncatedInt32ForToNumber of a Uint32
\* node and for GetFloat64ForToNumber with kAssumeNumberOrOddball of a
\* HoleyFloat64 node or of a tagged node that is not folded to a constant
\* and whose NodeInfo does not record a Number.
C5_MemoizedConversions ==
  (CVRepeated /\ ~CVNotMemoized) =>
     (cv_last.result = cv_prev.result /\ cv_last.added = 0)

\* A repeated request whose first call had to build a conversion node.
C5_Witness ==
  /\ CVRepeated
  /\ ~CVNotMemoized
  /\ cv_last.result = cv_prev.result
  /\ cv_prev.added > 0
  /\ cv_last.added = 0
  /\ cv_nodes[cv_last.result].conv
  /\ cv_last.fn = "GetInt32"


\* C6: when the known possible maps of the object are a subset of the
\* requested maps, BuildCheckMaps emits no node, returns Done and leaves the
\* possible maps as they were.
C6_SubsetEmitsNothing ==
  (mp_last.op = "BuildCheckMaps"
   /\ mp_last.info.present /\ mp_last.info.possible_maps_are_known
   /\ mp_last.info.possible_maps \subseteq mp_last.maps)
    => /\ mp_last.emitted = <<>>
       /\ mp_last.result = "Done"
       /\ mp_info.possible_maps_are_known
       /\ mp_info.possible_maps = mp_last.info.possible_maps
       /\ mp_info.any_map_is_unstable = mp_last.info.any_map_is_unstable

C6_Witness ==
  /\ mp_last.op = "BuildCheckMaps"
  /\ mp_last.merged
  /\ mp_last.info.present /\ mp_last.info.possible_maps_are_known
  /\ mp_last.info.possible_maps # {}
  /\ mp_last.info.possible_maps \subseteq mp_last.maps
  /\ mp_last.info.possible_maps # mp_last.maps
  /\ mp_emitted # <<>>
  /\ mp_last.emitted = <<>>

MPEmptyIntersection ==
  /\ mp_last.op = "BuildCheckMaps"
  /\ mp_last.merged
  /\ mp_last.merger.intersect_set = {}

MPExactlyOneDeopt ==
  /\ mp_last.emitted = <<MapCheckNode("Deopt", {}, "kWrongMap")>>
  /\ mp_last.result = "DoneWithAbort"
  /\ mp_aborted

C7_Original == MPEmptyIntersection => MPExactlyOneDeopt

\* C7: when the intersection BuildCheckMaps computes is empty and the known
\* possible maps are not a subset of the requested maps, BuildCheckMaps emits
\* exactly one unconditional deopt and returns the aborting result; when they
\* are a subset it emits nothing and returns Done.
C7_EmptyIntersectionDeopts ==
  MPEmptyIntersection =>
    IF mp_last.merger.known_maps_are_subset_of_requested_maps
    THEN mp_last.emitted = <<>> /\ mp_last.result = "Done" /\ ~mp_aborted
    ELSE MPExactlyOneDeopt

C7_Witness ==
  /\ MPEmptyIntersection
  /\ ~mp_last.merger.known_maps_are_subset_of_requested_maps
  /\ mp_last.info.possible_maps # {}
  /\ MPExactlyOneDeopt


RECURSIVE CountIn(_, _)
CountIn(seq, x) ==
  IF seq = <<>> THEN 0
  ELSE (IF seq[Len(seq)] = x THEN 1 ELSE 0)
       + CountIn(SubSeq(seq, 1, Len(seq) - 1), x)

PLRecordedOffsets == {pl_recorded[i] : i \in 1 .. Len(pl_recorded)}

C8_Original ==
  pl_pc = "done" =>
    \A offset \in PLRecordedOffsets :
      IF offset > pl_jump_loop
      THEN predecessors_[offset] = pl_pre[offset]
      ELSE predecessors_[offset] # pl_pre[offset]

\* C8: after PeelLoop, the predecessor count of every offset decremented
\* during the peeled pass is back at its pre-peel value if the offset lies at
\* or before the peeled JumpLoop, and stays decremented if it lies beyond it;
\* the loop header's count is 0 instead when the peeled iteration ended
\* without a current block.
C8_RestoredUpToJumpLoop ==
  pl_pc = "done" =>
    \A offset \in PLRecordedOffsets :
      IF offset = pl_loop_header /\ ~pl_block_at_end
      THEN predecessors_[offset] = 0
      ELSE IF offset <= pl_jump_loop
      THEN predecessors_[offset] = pl_pre[offset]
      ELSE predecessors_[offset]
             = pl_pre[offset] - CountIn(pl_recorded, offset)

C8_Witness ==
  /\ pl_pc = "done"
  /\ \E inside, beyond \in PLRecordedOffsets :
       /\ inside <= pl_jump_loop
       /\ inside # pl_loop_header
       /\ beyond > pl_jump_loop
       /\ predecessors_[inside] = pl_pre[inside]
       /\ predecessors_[beyond] < pl_pre[beyond]


\* The program `LdaSmi 5; Star r0; Ldar r0; JumpIfTrue L`, built to its end.
BCScenarioBuilt ==
  /\ bc_pc = "done"
  /\ Len(bc_program) >= 4
  /\ SubSeq(bc_program, Len(bc_program) - 3, Len(bc_program))
       = <<Bytecode("LdaSmi", 5, 0), Bytecode("Star", 0, 0),
           Bytecode("Ldar", 0, 0), Bytecode("JumpIfTrue", BCJumpTarget, 0)>>

BCCompareBranches ==
  {"BranchIfInt32Compare", "BranchIfFloat64Compare",
   "BranchIfReferenceCompare"}

C9_Original ==
  BCScenarioBuilt =>
    /\ Len(bc_control) = 1
    /\ bc_control[1].op \in BCCompareBranches

\* C9: building `LdaSmi 5; Star r0; Ldar r0; JumpIfTrue L` ends the block in
\* one BranchIfRootConstant that tests the Smi constant 5 against the true
\* root, with L as its true target; no comparison or boolean node is built
\* from the constant and no compare branch is fused.
C9_BranchIfRootConstantOnSmi ==
  BCScenarioBuilt =>
    /\ Len(bc_control) = 1
    /\ bc_control[1].op = "BranchIfRootConstant"
    /\ ~bc_control[1].fused
    /\ bc_nodes[bc_control[1].input].op = "SmiConstant"
    /\ bc_nodes[bc_control[1].input].k = 5
    /\ bc_control[1].root_index = kTrueValue
    /\ bc_control[1].true_target = BCJumpTarget
    /\ bc_control[1].false_target = BCFallthroughOffset
    /\ \A i \in 1 .. Len(bc_nodes) : ~bc_nodes[i].conv

C9_Witness ==
  /\ BCScenarioBuilt
  /\ Len(bc_control) = 1
  /\ bc_control[1].op = "BranchIfRootConstant"
  /\ bc_nodes[bc_control[1].input].op = "SmiConstant"
  /\ current_block_


MPMegamorphicAccess ==
  /\ mp_last.op = "TryBuildNamedAccess"
  /\ mp_last.maps = {}

MPMapCheckOps == {"CheckMaps", "CheckMapsWithMigration"}

\* C10: with empty feedback maps, a load whose receiver is the lookup start
\* object emits exactly one LoadIC_Megamorphic builtin call and no map check;
\* any other access mode or a different receiver makes TryBuildNamedAccess
\* return Fail without emitting a node.
C10_MegamorphicLoadOrFail ==
  MPMegamorphicAccess =>
    IF mp_last.access_mode = "kLoad" /\ mp_last.receiver_is_lookup_start
    THEN /\ mp_last.emitted = <<BuildCallBuiltin("kLoadIC_Megamorphic")>>
         /\ \A i \in 1 .. Len(mp_last.emitted) :
              mp_last.emitted[i].op \notin MPMapCheckOps
         /\ mp_last.result = "DoneWithValue"
    ELSE /\ mp_last.result = "Fail"
         /\ mp_last.emitted = <<>>

C10_Witness ==
  /\ MPMegamorphicAccess
  /\ mp_last.access_mode = "kLoad"
  /\ mp_last.receiver_is_lookup_start
  /\ Len(mp_last.emitted) = 1
  /\ mp_last.emitted[1].op = "CallBuiltin"
  /\ mp_emitted # mp_last.emitted

\* C11: in every state reached by limit updates computed with ComputeLimit,
\* bump allocations, AdvanceAllocationObservers, PauseAllocationObservers
\* and ResumeAllocationObservers (and the other operations on the area), the
\* linear allocation area satisfies start() <= top() <= limit().
C11_StartTopLimitOrdered ==
  /\ allocation_info_.start <= allocation_info_.top
  /\ allocation_info_.top <= allocation_info_.limit

\* An area with observers active was bumped on the fast path after its limit
\* had been lowered for the observers, then advanced, and still has room.
C11_Witness ==
  /\ la_last.op = "AdvanceAllocationObservers"
  /\ LAObserving(LAState)
  /\ allocation_info_.start = allocation_info_.top
  /\ allocation_info_.top < allocation_info_.limit
  /\ allocation_info_.limit < la_end
  /\ la_last.before > allocation_counter_.next_bytes

\* C12: on every return from InvokeAllocationObservers with observers
\* supported and active, whether or not observers fired, limit() - start()
\* of the linear allocation area is strictly less than NextBytes().
C12_ResidualBelowNextBytes ==
  (la_last.op = "InvokeAllocationObservers" /\ ~la_fatal /\ la_last.observing)
    => allocation_info_.limit - allocation_info_.start
         < NextBytes(allocation_counter_)

\* An allocation that ran the observers and left an area with room in it.
C12_Witness ==
  /\ la_last.op = "InvokeAllocationObservers"
  /\ ~la_fatal
  /\ la_last.observing
  /\ la_last.fired
  /\ allocation_info_.limit - allocation_info_.start > 0
  /\ allocation_info_.limit - allocation_info_.start
       < NextBytes(allocation_counter_)

\* What the call's arguments satisfy.
LASizeEqualsAligned == la_last.size_in_bytes = la_last.aligned_size_in_bytes
LAAlignedEqualsAllocation ==
  la_last.aligned_size_in_bytes = la_last.allocation_size

\* C16, as stated: a call of InvokeAllocationObservers that passes the
\* assertions has exactly one of size_in_bytes == aligned_size_in_bytes and
\* aligned_size_in_bytes == allocation_size.
C16_Original ==
  (la_last.op = "InvokeAllocationObservers" /\ ~la_fatal)
    => (LASizeEqualsAligned # LAAlignedEqualsAllocation)

\* C16: with size_in_bytes <= aligned_size_in_bytes <= allocation_size, a
\* call of InvokeAllocationObservers passes the assertions exactly when at
\* least one of size_in_bytes == aligned_size_in_bytes and
\* aligned_size_in_bytes == allocation_size holds; both may hold.
C16_AtLeastOneEquality ==
  (/\ la_last.op = "InvokeAllocationObservers"
   /\ la_last.size_in_bytes <= la_last.aligned_size_in_bytes
   /\ la_last.aligned_size_in_bytes <= la_last.allocation_size)
    => (~la_fatal <=> (LASizeEqualsAligned \/ LAAlignedEqualsAllocation))

\* A call with neither filler nor overallocation passed the assertions: both
\* equalities hold.
C16_Witness ==
  /\ la_last.op = "InvokeAllocationObservers"
  /\ ~la_fatal
  /\ LASizeEqualsAligned
  /\ LAAlignedEqualsAllocation
  /\ la_last.checked

\* C17: InvokeAllocationObservers runs observer steps only when observers
\* are supported, the counter is active and allocation_size >= NextBytes();
\* in every other case, also while paused, it invokes no observer and
\* creates no filler object.
C17_ObserversOnlyAtThreshold ==
  (la_last.op = "InvokeAllocationObservers" /\ ~la_fatal)
    => LET due == /\ la_supports_observer
                  /\ IsActive(allocation_counter_)
                  /\ la_last.allocation_size >= la_last.next_bytes
       IN /\ (la_last.fired \/ la_last.filler) => due
          /\ ~due => (~la_last.fired /\ ~la_last.filler)

\* A call below the threshold with observers active, which ran nothing.
C17_Witness ==
  /\ la_last.op = "InvokeAllocationObservers"
  /\ ~la_fatal
  /\ la_supports_observer
  /\ IsActive(allocation_counter_)
  /\ la_last.allocation_size < la_last.next_bytes
  /\ ~la_last.fired
  /\ ~la_last.filler

\* The last call and the one before it, with the state each found.
BALast == ba_last[2]
BAPrevious == ba_last[1]
BARange(call) == MarkbitsOf(call.start, call.end)

\* What C13 says of one call: CreateBlackArea sets exactly the mark bits of
\* the range and adds end - start to the live bytes, DestroyBlackArea clears
\* them and subtracts end - start.
BASingleCallEffect ==
  /\ BALast.op = "CreateBlackArea" =>
       /\ ba_bitmap = BALast.bitmap \cup BARange(BALast)
       /\ ba_live_bytes = BALast.live_bytes + (BALast.end - BALast.start)
  /\ BALast.op = "DestroyBlackArea" =>
       /\ ba_bitmap = BALast.bitmap \ BARange(BALast)
       /\ ba_live_bytes = BALast.live_bytes - (BALast.end - BALast.start)

\* DestroyBlackArea has just undone the CreateBlackArea before it.
BACreateThenDestroy ==
  /\ BAPrevious.op = "CreateBlackArea"
  /\ BALast.op = "DestroyBlackArea"
  /\ BALast.start = BAPrevious.start
  /\ BALast.end = BAPrevious.end

\* C13, as stated: besides the effect of each call, CreateBlackArea followed
\* by DestroyBlackArea on the same range restores the live-byte counter and
\* the range's mark bits to their values before the create, for every range.
C13_Original ==
  /\ BASingleCallEffect
  /\ BACreateThenDestroy =>
       /\ ba_live_bytes = BAPrevious.live_bytes
       /\ ba_bitmap \cap BARange(BALast)
            = BAPrevious.bitmap \cap BARange(BALast)

\* C13: CreateBlackArea sets exactly the mark bits of the range and adds
\* end - start to the live bytes, DestroyBlackArea clears them and subtracts
\* end - start; CreateBlackArea followed by DestroyBlackArea on the same
\* range restores the live-byte counter and leaves the range's mark bits
\* clear, which is their value before the create when they were clear then.
C13_CreateDestroyBlackArea ==
  /\ BASingleCallEffect
  /\ BACreateThenDestroy =>
       /\ ba_live_bytes = BAPrevious.live_bytes
       /\ ba_bitmap \cap BARange(BALast) = {}
       /\ ba_bitmap \ BARange(BALast) = BAPrevious.bitmap \ BARange(BALast)
       /\ (BAPrevious.bitmap \cap BARange(BALast) = {})
            => ba_bitmap = BAPrevious.bitmap

\* A black area was created over clear mark bits next to set ones and then
\* destroyed: the page is as it was.
C13_Witness ==
  /\ BACreateThenDestroy
  /\ BAPrevious.bitmap \cap BARange(BALast) = {}
  /\ BAPrevious.bitmap # {}
  /\ ba_bitmap = BAPrevious.bitmap
  /\ ba_live_bytes = BAPrevious.live_bytes

\* C14: once the background calls CreateBlackAreaBackground and
\* DestroyBlackAreaBackground of concurrent threads over pairwise disjoint
\* ranges of the page have returned, however they interleaved, the live-byte
\* counter is its initial value plus the bytes created minus the bytes
\* destroyed: no update is lost.
C14_NoLostLiveBytesUpdate ==
  NoThreadInCall =>
    ba_live_bytes = ba_total.initial + ba_total.created - ba_total.destroyed

\* Two background creates were in their calls at the same time (the second
\* entered before the first had added its bytes) and both have returned.
C14_Witness ==
  /\ NoThreadInCall
  /\ ba_total.calls = 2
  /\ BAPrevious.op = "CreateBlackAreaBackground"
  /\ BALast.op = "CreateBlackAreaBackground"
  /\ BAPrevious.live_bytes = ba_total.initial
  /\ BALast.live_bytes = ba_total.initial
  /\ ba_live_bytes = ba_total.initial + ba_total.created

\* What every call of MoveOldToNewRememberedSetForSweeping does, and what an
\* insertion leaves of the sweeping set.
RSMoveDetaches ==
  /\ (rs_last.op = "move" /\ rs_last.sweeping # Null) =>
       /\ rs_fatal
       /\ slot_set_old_to_new = rs_last.live
       /\ sweeping_slot_set_ = rs_last.sweeping
  /\ (rs_last.op = "move" /\ rs_last.sweeping = Null) =>
       /\ ~rs_fatal
       /\ sweeping_slot_set_ = rs_last.live
       /\ slot_set_old_to_new = Null
  /\ rs_last.op = "insert" =>
       /\ sweeping_slot_set_ = rs_last.sweeping
       /\ slot_set_old_to_new # Null

\* C15, as stated: MoveOldToNewRememberedSetForSweeping requires
\* sweeping_slot_set_ to be null, and a second Move with no
\* MergeOldToNewRememberedSets in between fails the fatal check and changes
\* nothing; on success the sweeping set is the previous live set and the
\* live set is null, and insertions never land in the sweeping set.
C15_Original ==
  /\ RSMoveDetaches
  /\ (rs_last.op = "move" /\ rs_last.phase = "sweeping") => rs_fatal

\* C15: MoveOldToNewRememberedSetForSweeping requires sweeping_slot_set_ to
\* be null; a Move that finds it non-null (a second Move, with no
\* MergeOldToNewRememberedSets in between, after one that detached a
\* non-null set) fails the fatal check and changes nothing; on success the
\* sweeping set is the previous live set and the live set is null, and
\* insertions never land in the sweeping set.
C15_MoveDetachesLiveSet ==
  /\ RSMoveDetaches
  /\ (rs_last.op = "move" /\ rs_last.phase = "sweeping"
        /\ rs_last.sweeping # Null) => rs_fatal

\* A Move detached a set with slots in it.
C15_Witness ==
  /\ rs_last.op = "move"
  /\ ~rs_fatal
  /\ SlotSetContents(rs_last.live) # {}
  /\ sweeping_slot_set_ = rs_last.live
  /\ slot_set_old_to_new = Null

\* The loop header has a fresh loop merge state with exactly 2 predecessors,
\* of which the fallthrough from the peeled iteration has been merged.
PLFreshLoopHeader ==
  /\ merge_states_[pl_loop_header].exists
  /\ merge_states_[pl_loop_header].is_loop
  /\ merge_states_[pl_loop_header].has_been_peeled
  /\ merge_states_[pl_loop_header].predecessor_count = 2
  /\ merge_states_[pl_loop_header].predecessors_so_far = 1

\* C18, as stated: when PeelLoop has finished the peeled copy, the loop
\* header's merge state is a fresh loop merge state with exactly 2
\* predecessors and the bytecode iterator is at the loop header.
C18_Original ==
  pl_pc = "done" => (PLFreshLoopHeader /\ iterator_offset = pl_loop_header)

\* C18: when PeelLoop has finished the peeled copy, the bytecode iterator is
\* at the loop header; if the peeled iteration ended in a live block, the
\* loop header's merge state is a fresh loop merge state with exactly 2
\* predecessors, and if it ended in dead code the loop header has no merge
\* state and no predecessors.
C18_LoopHeaderAfterPeel ==
  pl_pc = "done" =>
    /\ iterator_offset = pl_loop_header
    /\ pl_block_at_end => PLFreshLoopHeader
    /\ ~pl_block_at_end =>
         /\ ~merge_states_[pl_loop_header].exists
         /\ predecessors_[pl_loop_header] = 0

\* A peel that merged dead predecessors on its way and reached the JumpLoop
\* in a live block: the header has its fresh loop merge state.
C18_Witness ==
  /\ pl_pc = "done"
  /\ pl_block_at_end
  /\ pl_recorded # <<>>
  /\ PLFreshLoopHeader
  /\ iterator_offset = pl_loop_header

\* The merge state MergeDead and the test for an unreachable loop leave of
\* a merge state that exists.
PLAfterDeadMerge(state) ==
  IF state.is_loop /\ state.predecessor_count - 1 = 1 THEN NoMergeState
  ELSE [state EXCEPT !.predecessor_count = @ - 1]

\* C19: each call of MergeDeadIntoFrameState(target) decrements
\* predecessors_[target] by exactly one; a merge state that exists at the
\* target has one dead predecessor recorded, and is discarded when that
\* leaves a loop merge state without reachable predecessors; without a merge
\* state none is created.
C19_MergeDeadDecrementsByOne ==
  pl_dead.called =>
    /\ pl_dead.predecessors_after = pl_dead.predecessors_before - 1
    /\ pl_dead.state_before.exists =>
         pl_dead.state_after = PLAfterDeadMerge(pl_dead.state_before)
    /\ ~pl_dead.state_before.exists => pl_dead.state_after = NoMergeState

\* A dead merge into a loop header whose only forward predecessor it was:
\* the loop merge state is gone.
C19_Witness ==
  /\ pl_dead.called
  /\ pl_dead.state_before.exists
  /\ pl_dead.state_before.is_loop
  /\ pl_dead.state_after = NoMergeState
  /\ pl_dead.predecessors_after = pl_dead.predecessors_before - 1
  /\ ~merge_states_[pl_dead.target].exists

\* The offsets TryFindNextBranch scanned in the builder `level` levels up:
\* from after its current bytecode to the returned jump, or to its Return.
FBScanned(level) ==
  LET unit == fb_frames[level + 1]
  IN (unit.offset + 1) ..
       (IF level = fb_result.inline_level THEN fb_result.offset
        ELSE Len(unit.program) - 1)

\* A bytecode the search passes over in the builder `level` levels up.
FBPassedOver(level, offset) ==
  LET unit == fb_frames[level + 1]
      bytecode == unit.program[offset + 1]
  IN \/ bytecode.op \in {"Mov", "ToBoolean", "LogicalNot",
                         "ToBooleanLogicalNot"}
     \/ /\ bytecode.op \in {"Star", "Star0", "Star1"}
        /\ StoreRegister(bytecode) \notin unit.parameters
        /\ StoreRegister(bytecode) \notin unit.live
     \/ /\ bytecode.op = "Return"
        /\ level < fb_result.inline_level
        /\ offset = Len(unit.program) - 1

\* The first bytecode after the test is a merge point, an observable store
\* or a bytecode the search knows nothing of.
FBBlockedAtOnce ==
  LET unit == fb_frames[1]
      offset == unit.offset + 1
      bytecode == unit.program[offset + 1]
  IN \/ offset \in unit.merge_points
     \/ /\ bytecode.op \in {"Star", "Star0", "Star1"}
        /\ StoreIsObservable(unit, StoreRegister(bytecode))
     \/ bytecode.op = "LdaSmi"

\* C20: when TryFindNextBranch returns a branch offset, no bytecode after
\* the test up to and including the returned conditional jump is a merge
\* point, in each frame scanned, and every bytecode before the jump is a
\* Mov, ToBoolean, LogicalNot, ToBooleanLogicalNot, a Star or short Star to
\* a non-parameter register that is dead after it, or a Return crossed into
\* the caller; on a merge point, a store to a live or parameter register or
\* another bytecode it returns no offset; the builder's iterator stays on
\* the test.
C20_FusedBranchIsReachedCleanly ==
  fb_result.called =>
    /\ fb_frames[1].offset = 0
    /\ fb_result.offset # kNoBranch =>
         /\ fb_result.inline_level < Len(fb_frames)
         /\ fb_frames[fb_result.inline_level + 1]
              .program[fb_result.offset + 1].op \in FusableJumps
         /\ \A level \in 0 .. fb_result.inline_level :
              \A offset \in FBScanned(level) :
                /\ offset \notin fb_frames[level + 1].merge_points
                /\ (level = fb_result.inline_level
                      /\ offset = fb_result.offset)
                     \/ FBPassedOver(level, offset)
    /\ FBBlockedAtOnce => fb_result.offset = kNoBranch

\* The search passed a dead store and the Return of the inlined function
\* and found the jump in the caller behind a LogicalNot.
C20_Witness ==
  /\ fb_result.called
  /\ fb_result.inline_level = 1
  /\ fb_result.offset = 2
  /\ fb_frames[1].program[2].op \in {"Star", "Star0"}
  /\ fb_frames[1].program[3].op = "Return"
  /\ fb_frames[2].program[2].op = "LogicalNot"

\* C28: MergeOldToNewRememberedSets called with a null sweeping set leaves the
\* live set and the sweeping set as they were; after every call of it the
\* sweeping set is null, and a MoveOldToNewRememberedSetForSweeping that
\* follows it passes its null check.
C28_MergeLeavesNoSweepingSet ==
  /\ (rs_last.op = "merge" /\ rs_last.sweeping = Null) =>
       /\ slot_set_old_to_new = rs_last.live
       /\ sweeping_slot_set_ = Null
  /\ rs_last.op = "merge" => sweeping_slot_set_ = Null
  /\ (rs_last.op = "move" /\ rs_last.prev = "merge") =>
       /\ ~rs_fatal
       /\ rs_last.sweeping = Null
       /\ sweeping_slot_set_ = rs_last.live

\* A Move succeeded right after a Merge that had merged a pending sweeping
\* set into a live set with slots of its own.
C28_Witness ==
  /\ rs_last.op = "move"
  /\ rs_last.prev = "merge"
  /\ ~rs_fatal
  /\ rs_pre # {}
  /\ SlotSetContents(sweeping_slot_set_) # {}
  /\ slot_set_old_to_new = Null

\* The offsets in decremented_predecessor_offsets_.
PLDecrementedOffsets ==
  {decremented_predecessor_offsets_[i] :
     i \in 1 .. Len(decremented_predecessor_offsets_)}

\* C29: decremented_predecessor_offsets_ is empty whenever the builder is not
\* inside a peeled iteration; a dead merge records its target exactly when
\* in_peeled_iteration_ is set, one entry per decrement; every recorded
\* offset is at or after the header of the peeled loop; the list is empty
\* when PeelLoop returns and no count ends above its value before the peel;
\* in_peeled_iteration_ is not set when PeelLoop is entered.
C29_DecrementsRecordedOnlyWhilePeeling ==
  /\ ~in_peeled_iteration_ => decremented_predecessor_offsets_ = <<>>
  /\ pl_dead.called => (pl_dead.recorded <=> pl_dead.peeling)
  /\ pl_pc = "peeling" =>
       /\ in_peeled_iteration_
       /\ \A offset \in Offsets :
            predecessors_[offset] =
              pl_pre[offset]
                - CountIn(decremented_predecessor_offsets_, offset)
  /\ \A offset \in PLDecrementedOffsets \cup PLRecordedOffsets :
       offset >= pl_loop_header
  /\ pl_pc = "done" =>
       /\ decremented_predecessor_offsets_ = <<>>
       /\ \A offset \in Offsets :
            /\ predecessors_[offset] <= pl_pre[offset]
            /\ predecessors_[offset] >=
                 IF offset = pl_loop_header /\ ~pl_block_at_end THEN 0
                 ELSE pl_pre[offset] - CountIn(pl_recorded, offset)
  /\ pl_pc = "start" => ~in_peeled_iteration_

\* A peel that followed a dead merge made before the loop, recorded two
\* decrements of one offset and a third of another, and drained the list.
C29_Witness ==
  /\ pl_pc = "done"
  /\ decremented_predecessor_offsets_ = <<>>
  /\ Len(pl_recorded) >= 3
  /\ \E offset \in PLRecordedOffsets : CountIn(pl_recorded, offset) = 2
  /\ \E offset \in Offsets :
       /\ offset > pl_jump_loop
       /\ offset \notin PLRecordedOffsets
       /\ pl_pre[offset] = MaxPredecessors - 1

\* The offset in the builder `level` levels up at which a search that starts
\* at `offset` stops: the first merge point or the first bytecode that is no
\* Mov, ToBoolean, LogicalNot, ToBooleanLogicalNot or dead store.
RECURSIVE FBStop(_, _)
FBStop(level, offset) ==
  LET unit == fb_frames[level + 1]
      bytecode == unit.program[offset + 1]
  IN IF offset >= Len(unit.program) \/ offset \in unit.merge_points
     THEN offset
     ELSE IF \/ bytecode.op \in {"Mov", "ToBoolean", "LogicalNot",
                                  "ToBooleanLogicalNot"}
             \/ /\ bytecode.op \in {"Star", "Star0", "Star1"}
                /\ StoreRegister(bytecode) \notin unit.parameters
                /\ StoreRegister(bytecode) \notin unit.live
     THEN FBStop(level, offset + 1)
     ELSE offset

\* The search in the builder `level` levels up stops on a Return.
FBReachesReturn(level) ==
  LET unit == fb_frames[level + 1]
      stop == FBStop(level, unit.offset + 1)
  IN /\ stop < Len(unit.program)
     /\ stop \notin unit.merge_points
     /\ unit.program[stop + 1].op = "Return"

\* The four conditions on that Return: the builder is inlined, its new
\* target is the undefined root constant, the Return is its last bytecode
\* and its inline exit is no merge point.
FBReturnIsSoleExit(level) ==
  LET unit == fb_frames[level + 1]
      stop == FBStop(level, unit.offset + 1)
  IN /\ level + 1 < Len(fb_frames)
     /\ unit.new_target_is_root
     /\ stop = Len(unit.program) - 1
     /\ Len(unit.program) \notin unit.merge_points

\* The number of Returns a search that starts `level` levels up may cross.
RECURSIVE FBCrossed(_)
FBCrossed(level) ==
  IF FBReachesReturn(level) /\ FBReturnIsSoleExit(level)
  THEN 1 + FBCrossed(level + 1) ELSE 0

\* C22: TryFindNextBranch continues across a Return into the caller only if
\* the builder is inlined, its new target is the undefined root constant, the
\* Return is the last bytecode and the inline exit is no merge point; a
\* Return reached otherwise yields no branch offset; the inline level of a
\* returned branch is the number of Returns crossed.
C22_ReturnCrossedOnlyAsSoleExit ==
  fb_result.called =>
    /\ fb_result.offset # kNoBranch =>
         /\ fb_result.inline_level = FBCrossed(0)
         /\ \A level \in 0 .. (fb_result.inline_level - 1) :
              FBReachesReturn(level) /\ FBReturnIsSoleExit(level)
    /\ FBReachesReturn(FBCrossed(0)) => fb_result.offset = kNoBranch
    /\ (FBReachesReturn(0) /\ Len(fb_frames) = 1) =>
         fb_result.offset = kNoBranch

\* Two Returns crossed: the branch is found two builders up.
C22_Witness ==
  /\ fb_result.called
  /\ Len(fb_frames) = 3
  /\ fb_result.inline_level = 2
  /\ fb_result.offset = 1
  /\ FBReachesReturn(0)
  /\ FBReachesReturn(1)
  /\ fb_frames[3].program[2].op = "JumpIfTrue"

\* The fused branch, the jump it was fused with, and the number of
\* LogicalNot and ToBooleanLogicalNot bytecodes between test and jump.
FUBranch == bc_control[Len(bc_control)]
FUJump == bc_program[bc_fused.jump + 1]
FUNegations ==
  Cardinality({offset \in (bc_fused.test + 1) .. (bc_fused.jump - 1) :
                 bc_program[offset + 1].op
                   \in {"LogicalNot", "ToBooleanLogicalNot"}})
FUOddNegations == FUNegations % 2 = 1
FUJumpsOnTrue ==
  FUJump.op \in {"JumpIfTrue", "JumpIfTrueConstant", "JumpIfToBooleanTrue",
                 "JumpIfToBooleanTrueConstant"}

\* The boolean constant a node is, if it is one.
FUIsBoolean(node, value) ==
  /\ node # nullptr
  /\ bc_nodes[node].op = "RootConstant"
  /\ bc_nodes[node].k = IF value THEN kTrueValue ELSE kFalseValue

\* The values the tested node may have at run time, given what the builder
\* knows of its type, and what the interpreter and the branch make of them.
FUValues ==
  IF CheckType(BCBuilder, FUBranch.input, kBoolean) THEN {"true", "false"}
  ELSE IF CheckType(BCBuilder, FUBranch.input, kSmi) THEN {"smi0", "smi5"}
  ELSE IF CheckType(BCBuilder, FUBranch.input, kString) THEN {"empty", "str"}
  ELSE {"undefined", "true", "false", "smi0", "smi5", "empty", "str"}
FUTruthy(value) == value \in {"true", "smi5", "str"}
FUTestResult(value) ==
  LET test == bc_program[bc_fused.test + 1].op
  IN IF test = "TestUndefined" THEN value = "undefined"
     ELSE IF test = "ToBoolean" THEN FUTruthy(value)
     ELSE ~FUTruthy(value)
FUConstantValue(node) ==
  IF node.op = "SmiConstant" THEN (IF node.k = 0 THEN "smi0" ELSE "smi5")
  ELSE IF node.k = kempty_string THEN "empty"
  ELSE IF node.k = kTrueValue THEN "true"
  ELSE IF node.k = kFalseValue THEN "false"
  ELSE "undefined"
FUCondition(value) ==
  IF FUBranch.op = "BranchIfToBooleanTrue" THEN FUTruthy(value)
  ELSE IF FUBranch.op = "BranchIfReferenceCompare"
  THEN value = FUConstantValue(bc_nodes[FUBranch.root_index])
  ELSE value = FUConstantValue(Node("RootConstant", 0, "Tagged",
                                    FUBranch.root_index, FALSE))

\* C21: for every sequence of Mov, ToBoolean, LogicalNot, ToBooleanLogicalNot
\* and dead Star bytecodes between a test and its conditional jump and for
\* either initial flip, the true target of the fused branch is the jump
\* target exactly when (the jump jumps on true) differs from (initial flip
\* differs from the parity of the negations), and the fallthrough otherwise;
\* the accumulator merged into the jump target is the boolean the jump tests
\* for and the fallthrough accumulator its negation; for every value of the
\* tested node, control goes where the unfused bytecode would go.
C21_FusedBranchMatchesUnfused ==
  bc_fused.called =>
    LET flip == bc_fused.init_flip # FUOddNegations
        to_jump_target == FUJumpsOnTrue # flip
    IN /\ FUBranch.fused
       /\ FUJump.op \in FusableJumps
       /\ FUBranch.true_target =
            IF to_jump_target THEN FUJump.a ELSE bc_fused.jump + 1
       /\ FUBranch.false_target =
            IF to_jump_target THEN bc_fused.jump + 1 ELSE FUJump.a
       /\ FUIsBoolean(bc_branch_accumulators[FUJump.a], FUJumpsOnTrue)
       /\ FUIsBoolean(bc_branch_accumulators[bc_fused.jump + 1],
                      ~FUJumpsOnTrue)
       /\ \A value \in FUValues :
            LET accumulator == FUTestResult(value) # FUOddNegations
                unfused == IF accumulator = FUJumpsOnTrue THEN FUJump.a
                           ELSE bc_fused.jump + 1
                fused == IF FUCondition(value) THEN FUBranch.true_target
                         ELSE FUBranch.false_target
            IN /\ fused = unfused
               /\ FUIsBoolean(bc_branch_accumulators[fused], accumulator)

\* A ToBoolean of a Smi fused, with an initial flip, over a
\* ToBooleanLogicalNot and a dead store with a jump on false.
C21_Witness ==
  /\ bc_fused.called
  /\ bc_fused.init_flip
  /\ FUBranch.op = "BranchIfReferenceCompare"
  /\ FUNegations = 1
  /\ bc_program[2].op = "ToBooleanLogicalNot"
  /\ bc_program[3].op \in {"Star", "Star0"}
  /\ FUJump.op = "JumpIfToBooleanFalseConstant"
  /\ FUBranch.false_target = BCJumpTarget

\* The conditional jump the builder is about to visit.
KBAtJump ==
  /\ bc_pc = "building"
  /\ current_block_
  /\ CurrentBytecode.op \in KBJumpOps

\* The input of the jump once the LogicalNots on it are passed over.
RECURSIVE KBInput(_)
KBInput(node) ==
  IF bc_nodes[node].op = "LogicalNot" THEN KBInput(bc_nodes[node].input)
  ELSE node

\* The outcome of the jump is statically known: a constant input, an input
\* known to be a Boolean under a test for undefined, or an input known to be a
\* JSReceiver under a ToBoolean test.
KBKnown ==
  LET accumulator == current_interpreter_frame_[kAccumulator]
      input == KBInput(accumulator)
  IN IF CurrentBytecode.op \in {"JumpIfToBooleanTrue", "JumpIfToBooleanFalse"}
     THEN \/ IsConstantNode(bc_nodes[input].op)
          \/ CheckType(BCBuilder, input, kJSReceiver)
     ELSE IF CurrentBytecode.op \in {"JumpIfUndefined", "JumpIfNotUndefined"}
     THEN \/ CheckType(BCBuilder, accumulator, kBoolean)
          \/ bc_nodes[input].op = "RootConstant"
     ELSE bc_nodes[input].op = "RootConstant"

\* The step gave `offset` one live merge and no dead one.
KBLiveMerged(offset) ==
  /\ predecessors_'[offset] = predecessors_[offset]
  /\ merge_states_'[offset] =
       IF merge_states_[offset].exists
       THEN [merge_states_[offset] EXCEPT !.predecessors_so_far = @ + 1]
       ELSE NewMergeState(predecessors_[offset])

\* The step gave `offset` one dead merge and no live one.
KBDeadMerged(offset) ==
  /\ predecessors_'[offset] = predecessors_[offset] - 1
  /\ merge_states_'[offset] =
       IF ~merge_states_[offset].exists THEN NoMergeState
       ELSE IF /\ merge_states_[offset].is_loop
               /\ merge_states_[offset].predecessor_count = 2
       THEN NoMergeState
       ELSE [merge_states_[offset] EXCEPT !.predecessor_count = @ - 1]

KBUntouched(offset) ==
  /\ predecessors_'[offset] = predecessors_[offset]
  /\ merge_states_'[offset] = merge_states_[offset]

KBAccounted ==
  LET jump_offset == CurrentBytecode.a
      fallthrough_offset == iterator_offset + 1
      others == BCOffsets \ {jump_offset, fallthrough_offset}
  IN /\ \A offset \in others : KBUntouched(offset)
     /\ \/ /\ Len(bc_control') = Len(bc_control) + 1
           /\ bc_control'[Len(bc_control')].op = "Jump"
           /\ bc_control'[Len(bc_control')].true_target = jump_offset
           /\ ~current_block_'
           /\ KBLiveMerged(jump_offset)
           /\ KBDeadMerged(fallthrough_offset)
        \/ /\ bc_control' = bc_control
           /\ current_block_'
           /\ KBDeadMerged(jump_offset)
           /\ KBUntouched(fallthrough_offset)

\* C30: a conditional jump whose outcome is statically known accounts each of
\* its two successors exactly once: taken, the block ends in a Jump merged
\* live into the jump target and the fallthrough gets one dead merge; not
\* taken, the jump target gets one dead merge and the block goes on.
C30_KnownJumpAccountsEachSuccessorOnce ==
  [][KBAtJump /\ KBKnown => KBAccounted]_vars

\* A known jump was taken: the block ended in a Jump and the fallthrough,
\* which had a merge state, got the dead merge.
C30_Witness ==
  /\ bc_pc = "done"
  /\ bc_program[Len(bc_program)].op \in KBJumpOps
  /\ bc_control # <<>>
  /\ bc_control[Len(bc_control)].op = "Jump"
  /\ ~current_block_
  /\ pl_dead.called
  /\ pl_dead.target = Len(bc_program)
  /\ pl_dead.state_before.exists
  /\ merge_states_[BCJumpTarget].exists

\* The page the last call of ShrinkToHighWaterMark found had nothing to give
\* back: no reservation, or the high water mark at the end of the area.
SHNothingToShrink ==
  \/ ~sh_last.page.reserved
  \/ sh_last.page.high_water_mark = sh_last.page.area_end

\* C25: ShrinkToHighWaterMark returns 0 and changes nothing for a page
\* without reservation or with the high water mark at area_end(); otherwise
\* it returns area_end() - high water mark rounded down to the commit page
\* size, and when that is positive the filler at the high water mark ends
\* exactly at the new area end, the old one minus the returned value.
C25_ShrinkReturnsRoundedDownUnused ==
  sh_last.called =>
    LET before == sh_last.page
        room == before.area_end - before.high_water_mark
    IN /\ ~sh_last.fatal
       /\ IF SHNothingToShrink
          THEN /\ sh_last.unused = 0
               /\ sh_page = before
               /\ sh_fillers = sh_last.fillers
          ELSE /\ sh_last.unused % sh_commit_page_size = 0
               /\ sh_last.unused <= room
               /\ room - sh_last.unused < sh_commit_page_size
               /\ sh_last.unused > 0 =>
                    /\ sh_page.area_end = before.area_end - sh_last.unused
                    /\ sh_page.high_water_mark = before.high_water_mark
                    /\ Len(sh_fillers) = room - sh_last.unused
                    /\ sh_fillers # <<>> =>
                         sh_page.high_water_mark + sh_fillers[1]
                           = sh_page.area_end
               /\ sh_last.unused = 0 =>
                    /\ sh_page = before
                    /\ sh_fillers = sh_last.fillers

\* A page was shrunk by a positive amount and a filler was kept in front of
\* the new area end.
C25_Witness ==
  /\ sh_last.called
  /\ sh_last.unused > 0
  /\ sh_fillers # <<>>
  /\ Len(sh_last.fillers) > sh_last.unused + Len(sh_fillers) - 1
  /\ sh_last.fillers[1] # sh_fillers[1]

\* The entry of (object, name) in a LoadedPropertyMap, nullptr for none.
KPEntry(properties, object, name) ==
  IF properties[name] = Null THEN nullptr ELSE properties[name][object]

KPLastIsRecord == kp_last.op = "RecordKnownProperty"

KPLastIsNonConstantStore ==
  KPLastIsRecord /\ ~kp_last.is_const /\ IsAnyStore(kp_last.access_mode)

\* What a load of (object, name) may reuse: the non-constant entry if there
\* is one, else the constant entry, else nothing.
KPReusable(object, name) ==
  LET loaded == KPEntry(loaded_properties, object, name)
      constant == KPEntry(loaded_constant_properties, object, name)
  IN IF loaded # nullptr THEN KPDoneWithValue(loaded)
     ELSE IF constant # nullptr THEN KPDoneWithValue(constant)
     ELSE KPFail

\* C27: a non-constant store of name N on object O removes every cached
\* non-constant load of N and caches the stored value for (O, N), so that a
\* load of (O, N) reuses the stored value and a load of (O2, N) reuses only a
\* constant entry; loads and constant records remove no entry; no record
\* touches the entries of another name.
C27_StoreClobbersNameOnly ==
  /\ KPLastIsNonConstantStore =>
       /\ \A object \in KPObjects :
            KPEntry(loaded_properties, object, kp_last.name) =
              IF object = kp_last.object THEN kp_last.value ELSE nullptr
       /\ KnownPropertyLoad(kp_last.object, kp_last.name)
            = KPDoneWithValue(kp_last.value)
       /\ \A object \in KPObjects \ {kp_last.object} :
            LET reused == KnownPropertyLoad(object, kp_last.name)
            IN reused.done =>
                 /\ KPEntry(loaded_constant_properties, object, kp_last.name)
                      # nullptr
                 /\ reused.value = KPEntry(loaded_constant_properties,
                                           object, kp_last.name)
  /\ KPLastIsRecord /\ ~KPLastIsNonConstantStore =>
       \A object \in KPObjects, name \in KPNames :
         /\ KPEntry(kp_last.loaded_before, object, name) # nullptr =>
              KPEntry(loaded_properties, object, name) # nullptr
         /\ KPEntry(kp_last.constant_before, object, name) # nullptr =>
              KPEntry(loaded_constant_properties, object, name) # nullptr
  /\ KPLastIsRecord =>
       \A object \in KPObjects, name \in KPNames \ {kp_last.name} :
         /\ KPEntry(loaded_properties, object, name)
              = KPEntry(kp_last.loaded_before, object, name)
         /\ KPEntry(loaded_constant_properties, object, name)
              = KPEntry(kp_last.constant_before, object, name)
  /\ kp_last.op = "TryReuseKnownPropertyLoad" =>
       /\ kp_last.result = KPReusable(kp_last.object, kp_last.name)
       /\ loaded_properties = kp_last.loaded_before
       /\ loaded_constant_properties = kp_last.constant_before

\* A non-constant store of a name removed the cached load of that name on
\* another object, which keeps a constant entry.
C27_Witness ==
  /\ KPLastIsNonConstantStore
  /\ \E object \in KPObjects \ {kp_last.object} :
       /\ KPEntry(kp_last.loaded_before, object, kp_last.name) # nullptr
       /\ KPEntry(loaded_properties, object, kp_last.name) = nullptr
       /\ KnownPropertyLoad(object, kp_last.name).done

\* GetDeoptFrameForLazyDeopt has built the frames of the builders as they
\* are.
DFLastIsCurrent == df_last # <<>>

\* The out-liveness of the builder the frame belongs to.
DFOutLiveness(frame) ==
  df_builders[Len(df_builders) - frame.depth + 1].liveness

DFInterpreted == {i \in DOMAIN df_last : df_last[i].type = "kInterpretedFrame"}

C26_NestedInliningEnds == <>(in_pc = "done")

\* C24: when the callee's return was fused into a branch of an outer frame,
\* BuildInlined ends with no current block in the inner builder and no merge
\* state at the inline exit, and TryBuildInlinedCall hands the result on
\* without creating the block at the inline exit and without taking over the
\* inner builder's block; when BuildInlined returns DoneWithAbort, the
\* caller's current_block_ is null.
C24_FusedReturnLeavesCallerBlock ==
  fr_last.called =>
    /\ fr_last.inner.terminated_with_fused_branch =>
         /\ fr_last.inner.current_block = nullptr
         /\ ~fr_last.inner.exit_merge_state
         /\ fr_last.result = "DoneWithoutValue"
         /\ ~fr_last.merged
         /\ fr_last.caller_after = fr_last.caller_before
    /\ fr_last.result = "DoneWithAbort" => fr_last.caller_after = nullptr

\* An inlined call ended in a fused branch of its caller, which goes on in
\* the fallthrough block of the branch.
C24_Witness ==
  /\ fr_last.called
  /\ fr_last.inner.terminated_with_fused_branch
  /\ fr_last.caller_after # nullptr
  /\ ~fr_builders[1].terminated_with_fused_branch

====
